---------------------------- MODULE Spec2Model ----------------------------
(***************************************************************************)
(* A model of the Bitcoin-Script explainer (src/backend): the tokenizer    *)
(* (parser.py), the template detector (detector.py), the opcode registry   *)
(* (opcodes.py) and the execution engine (explainer.py).                   *)
(*                                                                         *)
(* Python strings are TLA+ strings.  TLC evaluates Len, \o and SubSeq on   *)
(* strings, so every character-level operation of the source (startswith,  *)
(* upper, isdigit, int(), str(), slicing) is computed here on the string   *)
(* itself.  A Python list is a sequence; an Optional[str] is a sequence of *)
(* length 0 (None) or 1.                                                   *)
(***************************************************************************)
EXTENDS Integers, Sequences, FiniteSets, TLC

(***************************************************************************)
(* Python built-ins on strings and lists                                   *)
(***************************************************************************)

None == <<>>

Some(x) == <<x>>

Char(s, i) == SubSeq(s, i, i)

CharsOf(s) == {Char(s, i) : i \in 1..Len(s)}

\* s[:n] and s[n:] for n >= 0
Take(s, n) == SubSeq(s, 1, IF n < Len(s) THEN n ELSE Len(s))

Drop(s, n) == SubSeq(s, n + 1, Len(s))

\* s[:-n] for n >= 1: everything but the last n (an empty list when shorter)
ButLast(s, n) == SubSeq(s, 1, Len(s) - n)

\* s[-n] for 1 <= n <= len(s)
FromEnd(s, n) == s[Len(s) - n + 1]

LowerLetters == "abcdefghijklmnopqrstuvwxyz"

UpperLetters == "ABCDEFGHIJKLMNOPQRSTUVWXYZ"

Digits == CharsOf("0123456789")

HexDigits == CharsOf("0123456789abcdefABCDEF")

\* str.isspace() / the regular expression \s, on the ASCII range
Whitespace == {" ", "\t", "\n", "\r", "\f"}

\* the position of character c in alphabet a, 0 when absent
IndexIn(c, a) ==
  IF \E i \in 1..Len(a) : Char(a, i) = c
    THEN CHOOSE i \in 1..Len(a) : Char(a, i) = c
    ELSE 0

\* str.upper and str.lower on one character
upper_char(c) ==
  CASE c = "a" -> "A"
    []  c = "b" -> "B"
    []  c = "c" -> "C"
    []  c = "d" -> "D"
    []  c = "e" -> "E"
    []  c = "f" -> "F"
    []  c = "g" -> "G"
    []  c = "h" -> "H"
    []  c = "i" -> "I"
    []  c = "j" -> "J"
    []  c = "k" -> "K"
    []  c = "l" -> "L"
    []  c = "m" -> "M"
    []  c = "n" -> "N"
    []  c = "o" -> "O"
    []  c = "p" -> "P"
    []  c = "q" -> "Q"
    []  c = "r" -> "R"
    []  c = "s" -> "S"
    []  c = "t" -> "T"
    []  c = "u" -> "U"
    []  c = "v" -> "V"
    []  c = "w" -> "W"
    []  c = "x" -> "X"
    []  c = "y" -> "Y"
    []  c = "z" -> "Z"
    [] OTHER -> c

lower_char(c) ==
  CASE c = "A" -> "a"
    []  c = "B" -> "b"
    []  c = "C" -> "c"
    []  c = "D" -> "d"
    []  c = "E" -> "e"
    []  c = "F" -> "f"
    []  c = "G" -> "g"
    []  c = "H" -> "h"
    []  c = "I" -> "i"
    []  c = "J" -> "j"
    []  c = "K" -> "k"
    []  c = "L" -> "l"
    []  c = "M" -> "m"
    []  c = "N" -> "n"
    []  c = "O" -> "o"
    []  c = "P" -> "p"
    []  c = "Q" -> "q"
    []  c = "R" -> "r"
    []  c = "S" -> "s"
    []  c = "T" -> "t"
    []  c = "U" -> "u"
    []  c = "V" -> "v"
    []  c = "W" -> "w"
    []  c = "X" -> "x"
    []  c = "Y" -> "y"
    []  c = "Z" -> "z"
    [] OTHER -> c

\* pieces[lo] + ... + pieces[hi], for strings
RECURSIVE concat(_, _, _)
concat(pieces, lo, hi) ==
  IF lo > hi THEN ""
  ELSE IF lo = hi THEN pieces[lo]
  ELSE concat(pieces, lo, (lo + hi) \div 2)
       \o concat(pieces, (lo + hi) \div 2 + 1, hi)

upper(s) == concat([k \in 1..Len(s) |-> upper_char(Char(s, k))], 1, Len(s))

lower(s) == concat([k \in 1..Len(s) |-> lower_char(Char(s, k))], 1, Len(s))

startswith(s, p) == Len(s) >= Len(p) /\ SubSeq(s, 1, Len(p)) = p

\* sub in s
contains(s, sub) ==
  \E i \in 1..(Len(s) - Len(sub) + 1) : SubSeq(s, i, i + Len(sub) - 1) = sub

\* U+00B2 SUPERSCRIPT TWO, written here with an ASCII character that no
\* other rule of the parser accepts: str.isdigit() holds of it, int() raises
\* ValueError on it, and upper(), lower(), strip() and \s leave it alone
SuperscriptTwo == "^"

\* str.isdigit(): the decimal digits and the digits int() does not read
isdigit(s) ==
  s # "" /\ \A i \in 1..Len(s) : Char(s, i) \in Digits \cup {SuperscriptTwo}

Blank(s) == \A k \in 1..Len(s) : Char(s, k) \in Whitespace

\* from the first character that is no whitespace
lstrip(s) ==
  IF Blank(s) THEN ""
  ELSE SubSeq(s,
              CHOOSE k \in 1..Len(s) :
                Char(s, k) \notin Whitespace /\ Blank(SubSeq(s, 1, k - 1)),
              Len(s))

\* up to the last character that is no whitespace
rstrip(s) ==
  IF Blank(s) THEN ""
  ELSE SubSeq(s, 1,
              CHOOSE k \in 1..Len(s) :
                Char(s, k) \notin Whitespace /\ Blank(SubSeq(s, k + 1, Len(s))))

strip(s) == rstrip(lstrip(s))

\* the digits of an int() literal: digits of the base, a single underscore
\* allowed between two digits; lead_us: an underscore may also come first
\* (after a base prefix)
DigitRunOk(s, digs, lead_us) ==
  /\ s # ""
  /\ \A i \in 1..Len(s) : Char(s, i) \in digs \/ Char(s, i) = "_"
  /\ Char(s, Len(s)) # "_"
  /\ lead_us \/ Char(s, 1) # "_"
  /\ \A i \in 1..(Len(s) - 1) : ~(Char(s, i) = "_" /\ Char(s, i + 1) = "_")

Unsigned(s) ==
  IF s # "" /\ Char(s, 1) \in {"+", "-"} THEN Drop(s, 1) ELSE s

\* int(s) does not raise ValueError
int_ok(s) == DigitRunOk(Unsigned(strip(s)), Digits, FALSE)

\* int(s, 16) does not raise ValueError
int16_ok(s) ==
  LET u == Unsigned(strip(s))
  IN  IF startswith(lower(Take(u, 2)), "0x")
        THEN DigitRunOk(Drop(u, 2), HexDigits, TRUE)
        ELSE DigitRunOk(u, HexDigits, FALSE)

RECURSIVE nat_of(_, _)
nat_of(s, acc) ==
  IF s = "" THEN acc
  ELSE IF Char(s, 1) = "_" THEN nat_of(Drop(s, 1), acc)
  ELSE nat_of(Drop(s, 1), 10 * acc + (IndexIn(Char(s, 1), "0123456789") - 1))

\* int(s), where int_ok(s)
int(s) ==
  LET t == strip(s)
      n == nat_of(Unsigned(t), 0)
  IN  IF Char(t, 1) = "-" THEN 0 - n ELSE n

RECURSIVE str_nat(_)
str_nat(n) ==
  IF n < 10 THEN Char("0123456789", n + 1)
  ELSE str_nat(n \div 10) \o Char("0123456789", (n % 10) + 1)

\* str(n) of an integer
str(n) == IF n < 0 THEN "-" \o str_nat(0 - n) ELSE str_nat(n)

\* sep.join(xs)
join(sep, xs) ==
  concat([k \in 1..Len(xs) |-> IF k = 1 THEN xs[k] ELSE sep \o xs[k]], 1, Len(xs))

\* x in xs, for a list xs
InList(x, xs) == \E k \in 1..Len(xs) : xs[k] = x

(***************************************************************************)
(* parser.py                                                               *)
(***************************************************************************)

\* re.sub(r'\s+', ' ', s)
collapse_whitespace(s) ==
  concat([k \in 1..Len(s) |->
            IF Char(s, k) \notin Whitespace THEN Char(s, k)
            ELSE IF k = 1 \/ Char(s, k - 1) \notin Whitespace THEN " "
            ELSE ""],
         1, Len(s))

\* s.split(' '): the pieces between one space and the next
split_space(s) ==
  LET spaces == SelectSeq([k \in 1..Len(s) |-> k], LAMBDA k : Char(s, k) = " ")
  IN  [j \in 1..(Len(spaces) + 1) |->
         SubSeq(s,
                IF j = 1 THEN 1 ELSE spaces[j - 1] + 1,
                IF j = Len(spaces) + 1 THEN Len(s) ELSE spaces[j] - 1)]

is_valid_hex(s) ==
  IF s = "" THEN FALSE
  ELSE IF startswith(lower(s), "0x") THEN int16_ok(Drop(s, 2))
  ELSE int16_ok(s)

\* re.match(r'^[a-zA-Z0-9_<>]+$', token)
IdentifierChars == CharsOf(LowerLetters \o UpperLetters \o "0123456789_<>")

is_identifier(token) ==
  token # "" /\ \A i \in 1..Len(token) : Char(token, i) \in IdentifierChars

\* validate_token without its last branch: no token is rejected for its shape
validate_token_lenient(tok) ==
  LET token == strip(tok)
  IN  IF token = ""
        THEN [ok |-> FALSE, token |-> "", error |-> "Empty token encountered"]
      ELSE IF startswith(upper(token), "OP_")
        THEN [ok |-> TRUE, token |-> upper(token), error |-> ""]
      ELSE IF is_valid_hex(token)
        THEN [ok |-> TRUE, token |-> lower(token), error |-> ""]
      ELSE [ok |-> TRUE, token |-> token, error |-> ""]

\* validate_token dropping the 0x prefix of the hexadecimal data it normalizes
validate_token_drop_prefix(tok) ==
  LET token == strip(tok)
  IN  IF token = ""
        THEN [ok |-> FALSE, token |-> "", error |-> "Empty token encountered"]
      ELSE IF startswith(upper(token), "OP_")
        THEN [ok |-> TRUE, token |-> upper(token), error |-> ""]
      ELSE IF is_valid_hex(token)
        THEN [ok |-> TRUE,
              token |-> IF startswith(lower(token), "0x")
                          THEN Drop(lower(token), 2) ELSE lower(token),
              error |-> ""]
      ELSE IF isdigit(token) \/ is_identifier(token)
        THEN [ok |-> TRUE, token |-> token, error |-> ""]
      ELSE [ok |-> FALSE, token |-> "",
            error |-> "Invalid token: '" \o token
                      \o "' - must be opcode (OP_*) or hex data"]

\* The normalized token, or the ParseError raised
validate_token(tok) ==
  LET token == strip(tok)
  IN  IF token = ""
        THEN [ok |-> FALSE, token |-> "", error |-> "Empty token encountered"]
      ELSE IF startswith(upper(token), "OP_")
        THEN [ok |-> TRUE, token |-> upper(token), error |-> ""]
      ELSE IF is_valid_hex(token)
        THEN [ok |-> TRUE, token |-> lower(token), error |-> ""]
      ELSE IF isdigit(token)
        THEN [ok |-> TRUE, token |-> token, error |-> ""]
      ELSE IF is_identifier(token)
        THEN [ok |-> TRUE, token |-> token, error |-> ""]
      ELSE [ok |-> FALSE, token |-> "",
            error |-> "Invalid token: '" \o token
                      \o "' - must be opcode (OP_*) or hex data"]

\* The validated tokens, or the first ParseError raised
tokenize_script(script) ==
  IF script = "" \/ strip(script) = ""
    THEN [ok |-> FALSE, tokens |-> <<>>, error |-> "Empty script provided"]
  ELSE
    LET normalized == collapse_whitespace(strip(script))
        tokens == SelectSeq(split_space(normalized), LAMBDA t : t # "")
        validated == [k \in 1..Len(tokens) |-> validate_token(tokens[k])]
        bad == {k \in 1..Len(tokens) : ~validated[k].ok}
    IN  IF tokens = <<>>
          THEN [ok |-> FALSE, tokens |-> <<>>,
                error |-> "Script contains no valid tokens"]
        ELSE IF bad # {}
          THEN [ok |-> FALSE, tokens |-> <<>>,
                error |-> validated[CHOOSE k \in bad : \A j \in bad : k <= j].error]
        ELSE [ok |-> TRUE,
              tokens |-> [k \in 1..Len(tokens) |-> validated[k].token],
              error |-> ""]

\* the local set known_opcodes of parse_script
known_opcodes ==
  {"OP_DUP", "OP_HASH160", "OP_EQUAL", "OP_EQUALVERIFY",
   "OP_CHECKSIG", "OP_CHECKMULTISIG", "OP_VERIFY", "OP_RETURN"}

RECURSIVE unknown_opcode_warnings(_)
unknown_opcode_warnings(tokens) ==
  IF tokens = <<>> THEN <<>>
  ELSE (IF startswith(upper(tokens[1]), "OP_") /\ upper(tokens[1]) \notin known_opcodes
          THEN <<"Unknown opcode '" \o tokens[1] \o "' - will be processed as no-op">>
          ELSE <<>>)
       \o unknown_opcode_warnings(Tail(tokens))

\* (tokens, warning_message), with the list the message is joined from, or the
\* ParseError that tokenize_script raised
parse_script(script) ==
  LET t == tokenize_script(script)
      warnings ==
        (IF Len(t.tokens) = 1 /\ upper(t.tokens[1]) = "OP_RETURN"
           THEN <<"Script contains only OP_RETURN with no data payload">>
           ELSE <<>>)
        \o unknown_opcode_warnings(t.tokens)
  IN  IF ~t.ok
        THEN [ok |-> FALSE, tokens |-> <<>>, warnings |-> <<>>,
              warning_message |-> "", error |-> t.error]
        ELSE [ok |-> TRUE, tokens |-> t.tokens, warnings |-> warnings,
              warning_message |-> IF warnings # <<>> THEN join("; ", warnings) ELSE "",
              error |-> ""]

(***************************************************************************)
(* detector.py                                                             *)
(***************************************************************************)

P2PKH == "P2PKH (Pay-to-Public-Key-Hash)"

P2SH == "P2SH (Pay-to-Script-Hash)"

P2PK == "P2PK (Pay-to-Public-Key)"

MULTISIG == "Multisig (Multi-signature)"

NULL_DATA == "Null Data (OP_RETURN)"

P2WPKH == "P2WPKH (Native SegWit)"

P2WSH == "P2WSH (SegWit Script Hash)"

P2TR == "P2TR (Taproot)"

UNKNOWN == "Unknown / Custom Script"

\* [t.upper() if t.upper().startswith("OP_") else t for t in tokens]
normalize_tokens(tokens) ==
  [k \in 1..Len(tokens) |->
     IF startswith(upper(tokens[k]), "OP_") THEN upper(tokens[k]) ELSE tokens[k]]

\* is_p2pkh taking only hexadecimal data for the hash
is_p2pkh_hex_only(tokens) ==
  IF Len(tokens) # 5 THEN FALSE
  ELSE /\ tokens[1] = "OP_DUP"
       /\ tokens[2] = "OP_HASH160"
       /\ is_valid_hex(tokens[3])
       /\ tokens[4] = "OP_EQUALVERIFY"
       /\ tokens[5] = "OP_CHECKSIG"

is_p2pkh(tokens) ==
  IF Len(tokens) # 5 THEN FALSE
  ELSE /\ tokens[1] = "OP_DUP"
       /\ tokens[2] = "OP_HASH160"
       /\ ~startswith(tokens[3], "OP_")
       /\ tokens[4] = "OP_EQUALVERIFY"
       /\ tokens[5] = "OP_CHECKSIG"

\* is_p2sh taking only hexadecimal data for the hash
is_p2sh_hex_only(tokens) ==
  IF Len(tokens) # 3 THEN FALSE
  ELSE /\ tokens[1] = "OP_HASH160"
       /\ is_valid_hex(tokens[2])
       /\ tokens[3] = "OP_EQUAL"

is_p2sh(tokens) ==
  IF Len(tokens) # 3 THEN FALSE
  ELSE /\ tokens[1] = "OP_HASH160"
       /\ ~startswith(tokens[2], "OP_")
       /\ tokens[3] = "OP_EQUAL"

all_hex(s) == \A i \in 1..Len(s) : Char(s, i) \in HexDigits

\* the shared shape of is_p2wpkh, is_p2wsh and is_p2tr: a version marker and
\* a witness program of exactly n hexadecimal characters
is_witness_program(tokens, versions, n) ==
  IF Len(tokens) # 2 THEN FALSE
  ELSE IF tokens[1] \notin versions THEN FALSE
  ELSE IF startswith(tokens[2], "OP_") THEN FALSE
  ELSE Len(tokens[2]) = n /\ all_hex(tokens[2])

is_p2wpkh(tokens) == is_witness_program(tokens, {"OP_0", "0", "OP_FALSE"}, 40)

is_p2wsh(tokens) == is_witness_program(tokens, {"OP_0", "0", "OP_FALSE"}, 64)

is_p2tr(tokens) == is_witness_program(tokens, {"OP_1", "1", "OP_TRUE"}, 64)

is_p2pk(tokens) ==
  IF Len(tokens) # 2 THEN FALSE
  ELSE ~startswith(tokens[1], "OP_") /\ tokens[2] = "OP_CHECKSIG"

\* the mapping of parse_small_num
small_num_mapping ==
  [OP_0 |-> 0, OP_FALSE |-> 0, OP_1 |-> 1, OP_TRUE |-> 1, OP_2 |-> 2,
   OP_3 |-> 3, OP_4 |-> 4, OP_5 |-> 5, OP_6 |-> 6, OP_7 |-> 7, OP_8 |-> 8,
   OP_9 |-> 9, OP_10 |-> 10, OP_11 |-> 11, OP_12 |-> 12, OP_13 |-> 13,
   OP_14 |-> 14, OP_15 |-> 15, OP_16 |-> 16]

is_small_num(token) ==
  IF isdigit(token) /\ 0 <= int(token) /\ int(token) <= 16 THEN TRUE
  ELSE upper(token) \in DOMAIN small_num_mapping

parse_small_num(token) ==
  IF isdigit(token) THEN int(token)
  ELSE IF upper(token) \in DOMAIN small_num_mapping
    THEN small_num_mapping[upper(token)]
  ELSE -1

is_multisig(tokens) ==
  IF Len(tokens) < 4 THEN FALSE
  ELSE IF FromEnd(tokens, 1) # "OP_CHECKMULTISIG" THEN FALSE
  ELSE is_small_num(tokens[1]) /\ is_small_num(FromEnd(tokens, 2))

\* is_small_num, line 226: int(token) raises ValueError
is_small_num_raises(token) == isdigit(token) /\ ~int_ok(token)

\* parse_small_num, lines 238-239: int(token) raises ValueError
parse_small_num_raises(token) == isdigit(token) /\ ~int_ok(token)

\* is_multisig, lines 207-221: one of its two calls of is_small_num raises;
\* the second call is made only when the first returned True
is_multisig_raises(tokens) ==
  /\ Len(tokens) >= 4
  /\ FromEnd(tokens, 1) = "OP_CHECKMULTISIG"
  /\ \/ is_small_num_raises(tokens[1])
     \/ /\ is_small_num(tokens[1])
        /\ is_small_num_raises(FromEnd(tokens, 2))

\* an extraction that does not compare m with n
get_multisig_params_unordered(tokens) ==
  IF Len(tokens) < 4 THEN <<None, None>>
  ELSE LET m == parse_small_num(tokens[1])
           n == parse_small_num(FromEnd(tokens, 2))
       IN  IF m > 0 /\ n > 0 THEN <<Some(m), Some(n)>>
           ELSE <<None, None>>

\* (m, n), or (None, None)
get_multisig_params(tokens) ==
  IF Len(tokens) < 4 THEN <<None, None>>
  ELSE LET m == parse_small_num(tokens[1])
           n == parse_small_num(FromEnd(tokens, 2))
       IN  IF m > 0 /\ n > 0 /\ m <= n THEN <<Some(m), Some(n)>>
           ELSE <<None, None>>

\* a detector that tests the partial matches before the templates
detect_script_type_partial_first(tokens) ==
  IF tokens = <<>> THEN <<UNKNOWN, "Empty script">>
  ELSE IF InList("OP_CHECKMULTISIG", normalize_tokens(tokens)) THEN
    <<MULTISIG, "This appears to be a multisig-related script, but the pattern is non-standard.">>
  ELSE IF InList("OP_CHECKSIG", normalize_tokens(tokens)) THEN
    <<UNKNOWN, "This script uses signature verification but doesn't match standard patterns.">>
  ELSE IF normalize_tokens(tokens)[1] = "OP_RETURN" THEN
    <<NULL_DATA, "This is a null data output used for embedding data in the blockchain. It is provably unspendable.">>
  ELSE IF is_p2sh(normalize_tokens(tokens)) THEN
    <<P2SH, "This is a Pay-to-Script-Hash script. The spender must provide a redeem script that hashes to the embedded hash. Used for multisig and wrapped SegWit (addresses starting with '3').">>
  ELSE
    <<UNKNOWN, "This is a custom or non-standard script that doesn't match known patterns.">>

\* a detector without the rule for OP_CHECKMULTISIG outside the strict pattern
detect_script_type_without_partial_multisig(tokens) ==
  IF tokens = <<>> THEN <<UNKNOWN, "Empty script">>
  ELSE
  LET normalized == normalize_tokens(tokens)
      p == get_multisig_params(normalized)
  IN
  IF normalized[1] = "OP_RETURN" THEN
    <<NULL_DATA, "This is a null data output used for embedding data in the blockchain. It is provably unspendable.">>
  ELSE IF is_p2pkh(normalized) THEN
    <<P2PKH, "This is a Pay-to-Public-Key-Hash script. It requires a signature and public key that hashes to the embedded 20-byte hash. Most common script type for Bitcoin addresses starting with '1'.">>
  ELSE IF is_p2sh(normalized) THEN
    <<P2SH, "This is a Pay-to-Script-Hash script. The spender must provide a redeem script that hashes to the embedded hash. Used for multisig and wrapped SegWit (addresses starting with '3').">>
  ELSE IF is_p2wpkh(normalized) THEN
    <<P2WPKH, "This is a Native SegWit Pay-to-Witness-Public-Key-Hash script. It provides lower fees and better security than P2PKH. Addresses start with 'bc1q'.">>
  ELSE IF is_p2wsh(normalized) THEN
    <<P2WSH, "This is a Native SegWit Pay-to-Witness-Script-Hash script. Similar to P2SH but with SegWit benefits. Addresses start with 'bc1q'.">>
  ELSE IF is_p2tr(normalized) THEN
    <<P2TR, "This is a Taproot (Pay-to-Taproot) script. It uses Schnorr signatures and enables advanced scripting features. Addresses start with 'bc1p'.">>
  ELSE IF is_p2pk(normalized) THEN
    <<P2PK, "This is a Pay-to-Public-Key script. An early Bitcoin script type that exposes the public key directly. Rarely used in modern transactions.">>
  ELSE IF is_multisig(normalized) THEN
    IF p[1] # None /\ p[2] # None
      THEN <<MULTISIG, "This is a " \o str(p[1][1]) \o "-of-" \o str(p[2][1])
                       \o " multi-signature script. It requires " \o str(p[1][1])
                       \o " valid signatures from " \o str(p[2][1])
                       \o " possible public keys to spend.">>
      ELSE <<MULTISIG, "This is a multi-signature script requiring M-of-N signatures to spend.">>
  ELSE IF InList("OP_CHECKSIG", normalized) THEN
    <<UNKNOWN, "This script uses signature verification but doesn't match standard patterns.">>
  ELSE IF Len(normalized) = 2 /\ normalized[1] \in {"OP_0", "OP_1", "OP_2", "0", "1", "2"} THEN
    <<UNKNOWN, "This may be a witness program (SegWit) with non-standard witness data length.">>
  ELSE
    <<UNKNOWN, "This is a custom or non-standard script that doesn't match known patterns.">>

\* (script_type, description)
detect_script_type(tokens) ==
  IF tokens = <<>> THEN <<UNKNOWN, "Empty script">>
  ELSE
  LET normalized == normalize_tokens(tokens)
      p == get_multisig_params(normalized)
  IN
  IF normalized[1] = "OP_RETURN" THEN
    <<NULL_DATA, "This is a null data output used for embedding data in the blockchain. It is provably unspendable.">>
  ELSE IF is_p2pkh(normalized) THEN
    <<P2PKH, "This is a Pay-to-Public-Key-Hash script. It requires a signature and public key that hashes to the embedded 20-byte hash. Most common script type for Bitcoin addresses starting with '1'.">>
  ELSE IF is_p2sh(normalized) THEN
    <<P2SH, "This is a Pay-to-Script-Hash script. The spender must provide a redeem script that hashes to the embedded hash. Used for multisig and wrapped SegWit (addresses starting with '3').">>
  ELSE IF is_p2wpkh(normalized) THEN
    <<P2WPKH, "This is a Native SegWit Pay-to-Witness-Public-Key-Hash script. It provides lower fees and better security than P2PKH. Addresses start with 'bc1q'.">>
  ELSE IF is_p2wsh(normalized) THEN
    <<P2WSH, "This is a Native SegWit Pay-to-Witness-Script-Hash script. Similar to P2SH but with SegWit benefits. Addresses start with 'bc1q'.">>
  ELSE IF is_p2tr(normalized) THEN
    <<P2TR, "This is a Taproot (Pay-to-Taproot) script. It uses Schnorr signatures and enables advanced scripting features. Addresses start with 'bc1p'.">>
  ELSE IF is_p2pk(normalized) THEN
    <<P2PK, "This is a Pay-to-Public-Key script. An early Bitcoin script type that exposes the public key directly. Rarely used in modern transactions.">>
  ELSE IF is_multisig(normalized) THEN
    IF p[1] # None /\ p[2] # None
      THEN <<MULTISIG, "This is a " \o str(p[1][1]) \o "-of-" \o str(p[2][1])
                       \o " multi-signature script. It requires " \o str(p[1][1])
                       \o " valid signatures from " \o str(p[2][1])
                       \o " possible public keys to spend.">>
      ELSE <<MULTISIG, "This is a multi-signature script requiring M-of-N signatures to spend.">>
  ELSE IF InList("OP_CHECKMULTISIG", normalized) THEN
    <<MULTISIG, "This appears to be a multisig-related script, but the pattern is non-standard.">>
  ELSE IF InList("OP_CHECKSIG", normalized) THEN
    <<UNKNOWN, "This script uses signature verification but doesn't match standard patterns.">>
  ELSE IF Len(normalized) = 2 /\ normalized[1] \in {"OP_0", "OP_1", "OP_2", "0", "1", "2"} THEN
    <<UNKNOWN, "This may be a witness program (SegWit) with non-standard witness data length.">>
  ELSE
    <<UNKNOWN, "This is a custom or non-standard script that doesn't match known patterns.">>

\* detect_script_type raises ValueError: no rule before the strict multisig
\* rule matched, and is_multisig raises
detect_script_type_raises(tokens) ==
  /\ tokens # <<>>
  /\ \E normalized \in {normalize_tokens(tokens)} :
       /\ normalized[1] # "OP_RETURN"
       /\ ~is_p2pkh(normalized)
       /\ ~is_p2sh(normalized)
       /\ ~is_p2wpkh(normalized)
       /\ ~is_p2wsh(normalized)
       /\ ~is_p2tr(normalized)
       /\ ~is_p2pk(normalized)
       /\ is_multisig_raises(normalized)

(***************************************************************************)
(* opcodes.py: OpcodeResult and the symbolic handlers                      *)
(***************************************************************************)

\* OpcodeResult(success=True, stack=..., explanation=...), error defaulting to ""
Ok(stack, explanation) ==
  [success |-> TRUE, stack |-> stack, explanation |-> explanation, error |-> ""]

\* OpcodeResult(success=False, stack=..., explanation=..., error=...)
Failed(stack, explanation, error) ==
  [success |-> FALSE, stack |-> stack, explanation |-> explanation, error |-> error]

\* an underflow branch that pops before it reports
Underflow_after_pop(stack, explanation, error) ==
  Failed(ButLast(stack, 1), explanation, error)

\* the underflow result shared by the handlers: the input stack, unchanged
Underflow(stack, explanation, error) == Failed(stack, explanation, error)

\* --- stack manipulation

execute_op_dup(stack) ==
  IF Len(stack) < 1
    THEN Underflow(stack, "OP_DUP failed: stack is empty",
                   "Stack underflow: OP_DUP requires at least 1 item")
  ELSE LET top_item == FromEnd(stack, 1)
       IN  Ok(stack \o <<top_item>>,
              "OP_DUP: Duplicated '" \o top_item \o "' on top of the stack")

execute_op_drop(stack) ==
  IF Len(stack) < 1
    THEN Underflow(stack, "OP_DROP failed: stack is empty",
                   "Stack underflow: OP_DROP requires at least 1 item")
  ELSE LET top_item == FromEnd(stack, 1)
       IN  Ok(ButLast(stack, 1),
              "OP_DROP: Removed '" \o top_item \o "' from the stack")

execute_op_swap(stack) ==
  IF Len(stack) < 2
    THEN Underflow(stack, "OP_SWAP failed: need at least 2 items",
                   "Stack underflow: OP_SWAP requires at least 2 items")
  ELSE Ok(ButLast(stack, 2) \o <<FromEnd(stack, 1), FromEnd(stack, 2)>>,
          "OP_SWAP: Swapped '" \o FromEnd(stack, 2) \o "' and '"
          \o FromEnd(stack, 1) \o "'")

\* a rotation the other way round: (x y z) -> (z x y)
execute_op_rot_backwards(stack) ==
  IF Len(stack) < 3
    THEN Underflow(stack, "OP_ROT failed: need at least 3 items",
                   "Stack underflow: OP_ROT requires at least 3 items")
  ELSE LET x == FromEnd(stack, 3)
           y == FromEnd(stack, 2)
           z == FromEnd(stack, 1)
       IN  Ok(ButLast(stack, 3) \o <<z, x, y>>,
              "OP_ROT: Rotated - '" \o x \o "' moved to top, '" \o y
              \o "' and '" \o z \o "' shifted down")

execute_op_rot(stack) ==
  IF Len(stack) < 3
    THEN Underflow(stack, "OP_ROT failed: need at least 3 items",
                   "Stack underflow: OP_ROT requires at least 3 items")
  ELSE LET x == FromEnd(stack, 3)
           y == FromEnd(stack, 2)
           z == FromEnd(stack, 1)
       IN  Ok(ButLast(stack, 3) \o <<y, z, x>>,
              "OP_ROT: Rotated - '" \o x \o "' moved to top, '" \o y
              \o "' and '" \o z \o "' shifted down")

execute_op_over(stack) ==
  IF Len(stack) < 2
    THEN Underflow(stack, "OP_OVER failed: need at least 2 items",
                   "Stack underflow: OP_OVER requires at least 2 items")
  ELSE LET second == FromEnd(stack, 2)
       IN  Ok(stack \o <<second>>,
              "OP_OVER: Copied '" \o second \o "' to top of stack")

execute_op_nip(stack) ==
  IF Len(stack) < 2
    THEN Underflow(stack, "OP_NIP failed: need at least 2 items",
                   "Stack underflow: OP_NIP requires at least 2 items")
  ELSE LET removed == FromEnd(stack, 2)
       IN  Ok(ButLast(stack, 2) \o <<FromEnd(stack, 1)>>,
              "OP_NIP: Removed second item '" \o removed \o "'")

execute_op_tuck(stack) ==
  IF Len(stack) < 2
    THEN Underflow(stack, "OP_TUCK failed: need at least 2 items",
                   "Stack underflow: OP_TUCK requires at least 2 items")
  ELSE LET top == FromEnd(stack, 1)
       IN  Ok(ButLast(stack, 2) \o <<top, FromEnd(stack, 2), top>>,
              "OP_TUCK: Copied '" \o top \o "' below second item")

execute_op_2dup(stack) ==
  IF Len(stack) < 2
    THEN Underflow(stack, "OP_2DUP failed: need at least 2 items",
                   "Stack underflow: OP_2DUP requires at least 2 items")
  ELSE Ok(stack \o <<FromEnd(stack, 2), FromEnd(stack, 1)>>,
          "OP_2DUP: Duplicated '" \o FromEnd(stack, 2) \o "' and '"
          \o FromEnd(stack, 1) \o "'")

execute_op_3dup(stack) ==
  IF Len(stack) < 3
    THEN Underflow(stack, "OP_3DUP failed: need at least 3 items",
                   "Stack underflow: OP_3DUP requires at least 3 items")
  ELSE Ok(stack \o <<FromEnd(stack, 3), FromEnd(stack, 2), FromEnd(stack, 1)>>,
          "OP_3DUP: Duplicated '" \o FromEnd(stack, 3) \o "', '"
          \o FromEnd(stack, 2) \o "', and '" \o FromEnd(stack, 1) \o "'")

execute_op_2drop(stack) ==
  IF Len(stack) < 2
    THEN Underflow(stack, "OP_2DROP failed: need at least 2 items",
                   "Stack underflow: OP_2DROP requires at least 2 items")
  ELSE Ok(ButLast(stack, 2),
          "OP_2DROP: Removed '" \o FromEnd(stack, 2) \o "' and '"
          \o FromEnd(stack, 1) \o "'")

execute_op_depth(stack) ==
  LET depth == str(Len(stack))
  IN  Ok(stack \o <<depth>>, "OP_DEPTH: Pushed stack depth '" \o depth \o "'")

execute_op_size(stack) ==
  IF Len(stack) < 1
    THEN Underflow(stack, "OP_SIZE failed: stack is empty",
                   "Stack underflow: OP_SIZE requires at least 1 item")
  ELSE LET top == FromEnd(stack, 1)
           size == IF all_hex(top) THEN str(Len(top) \div 2) ELSE str(Len(top))
       IN  Ok(stack \o <<size>>,
              "OP_SIZE: Pushed size '" \o size \o "' of top item")

\* --- crypto (symbolic)

execute_op_hash160(stack) ==
  IF Len(stack) < 1
    THEN Underflow(stack, "OP_HASH160 failed: stack is empty",
                   "Stack underflow: OP_HASH160 requires at least 1 item")
  ELSE LET top_item == FromEnd(stack, 1)
       IN  Ok(ButLast(stack, 1) \o <<"HASH160(" \o top_item \o ")">>,
              "OP_HASH160: Replaced '" \o top_item \o "' with its HASH160 (symbolic)")

execute_op_sha256(stack) ==
  IF Len(stack) < 1
    THEN Underflow(stack, "OP_SHA256 failed: stack is empty",
                   "Stack underflow: OP_SHA256 requires at least 1 item")
  ELSE LET top_item == FromEnd(stack, 1)
       IN  Ok(ButLast(stack, 1) \o <<"SHA256(" \o top_item \o ")">>,
              "OP_SHA256: Replaced '" \o top_item \o "' with its SHA256 hash (symbolic)")

execute_op_sha1(stack) ==
  IF Len(stack) < 1
    THEN Underflow(stack, "OP_SHA1 failed: stack is empty",
                   "Stack underflow: OP_SHA1 requires at least 1 item")
  ELSE LET top_item == FromEnd(stack, 1)
       IN  Ok(ButLast(stack, 1) \o <<"SHA1(" \o top_item \o ")">>,
              "OP_SHA1: Replaced '" \o top_item \o "' with its SHA1 hash (symbolic)")

execute_op_ripemd160(stack) ==
  IF Len(stack) < 1
    THEN Underflow(stack, "OP_RIPEMD160 failed: stack is empty",
                   "Stack underflow: OP_RIPEMD160 requires at least 1 item")
  ELSE LET top_item == FromEnd(stack, 1)
       IN  Ok(ButLast(stack, 1) \o <<"RIPEMD160(" \o top_item \o ")">>,
              "OP_RIPEMD160: Replaced '" \o top_item \o "' with its RIPEMD160 hash (symbolic)")

execute_op_hash256(stack) ==
  IF Len(stack) < 1
    THEN Underflow(stack, "OP_HASH256 failed: stack is empty",
                   "Stack underflow: OP_HASH256 requires at least 1 item")
  ELSE LET top_item == FromEnd(stack, 1)
       IN  Ok(ButLast(stack, 1) \o <<"HASH256(" \o top_item \o ")">>,
              "OP_HASH256: Replaced '" \o top_item \o "' with its double SHA256 hash (symbolic)")

\* --- comparison

execute_op_equal(stack) ==
  IF Len(stack) < 2
    THEN Underflow(stack, "OP_EQUAL failed: need at least 2 items",
                   "Stack underflow: OP_EQUAL requires at least 2 items")
  ELSE LET item1 == FromEnd(stack, 1)
           item2 == FromEnd(stack, 2)
           new_stack == ButLast(stack, 2)
       IN  IF item1 = item2
             THEN Ok(new_stack \o <<"TRUE">>,
                     "OP_EQUAL: '" \o item2 \o "' equals '" \o item1 \o "' - pushed TRUE")
             ELSE Ok(new_stack \o <<"EQUAL(" \o item2 \o "," \o item1 \o ")">>,
                     "OP_EQUAL: Compared '" \o item2 \o "' and '" \o item1
                     \o "' - symbolic result")

execute_op_equalverify(stack) ==
  IF Len(stack) < 2
    THEN Underflow(stack, "OP_EQUALVERIFY failed: need at least 2 items",
                   "Stack underflow: OP_EQUALVERIFY requires at least 2 items")
  ELSE LET item1 == FromEnd(stack, 1)
           item2 == FromEnd(stack, 2)
           new_stack == ButLast(stack, 2)
       IN  IF item1 = item2
             THEN Ok(new_stack,
                     "OP_EQUALVERIFY: Verified '" \o item2 \o "' equals '" \o item1 \o "'")
             ELSE Ok(new_stack,
                     "OP_EQUALVERIFY: Symbolically verified equality (assumed valid)")

execute_op_numequal(stack) ==
  IF Len(stack) < 2
    THEN Underflow(stack, "OP_NUMEQUAL failed: need at least 2 items",
                   "Stack underflow: OP_NUMEQUAL requires at least 2 items")
  ELSE LET a == FromEnd(stack, 2)
           b == FromEnd(stack, 1)
           new_stack == ButLast(stack, 2)
           result == IF int(a) = int(b) THEN "TRUE" ELSE "FALSE"
       IN  IF int_ok(a) /\ int_ok(b)
             THEN Ok(new_stack \o <<result>>,
                     "OP_NUMEQUAL: " \o a \o " == " \o b \o " is " \o result)
             ELSE Ok(new_stack \o <<"NUMEQUAL(" \o a \o "," \o b \o ")">>,
                     "OP_NUMEQUAL: Symbolic comparison of '" \o a \o "' and '" \o b \o "'")

execute_op_numequalverify(stack) ==
  IF Len(stack) < 2
    THEN Underflow(stack, "OP_NUMEQUALVERIFY failed: need at least 2 items",
                   "Stack underflow: OP_NUMEQUALVERIFY requires at least 2 items")
  ELSE LET a == FromEnd(stack, 2)
           b == FromEnd(stack, 1)
       IN  Ok(ButLast(stack, 2),
              "OP_NUMEQUALVERIFY: Verified " \o a \o " equals " \o b)

execute_op_lessthan(stack) ==
  IF Len(stack) < 2
    THEN Underflow(stack, "OP_LESSTHAN failed: need at least 2 items",
                   "Stack underflow: OP_LESSTHAN requires at least 2 items")
  ELSE LET a == FromEnd(stack, 2)
           b == FromEnd(stack, 1)
           new_stack == ButLast(stack, 2)
           result == IF int(a) < int(b) THEN "TRUE" ELSE "FALSE"
       IN  IF int_ok(a) /\ int_ok(b)
             THEN Ok(new_stack \o <<result>>,
                     "OP_LESSTHAN: " \o a \o " < " \o b \o " is " \o result)
             ELSE Ok(new_stack \o <<"LESSTHAN(" \o a \o "," \o b \o ")">>,
                     "OP_LESSTHAN: Symbolic comparison of '" \o a \o "' < '" \o b \o "'")

execute_op_greaterthan(stack) ==
  IF Len(stack) < 2
    THEN Underflow(stack, "OP_GREATERTHAN failed: need at least 2 items",
                   "Stack underflow: OP_GREATERTHAN requires at least 2 items")
  ELSE LET a == FromEnd(stack, 2)
           b == FromEnd(stack, 1)
           new_stack == ButLast(stack, 2)
           result == IF int(a) > int(b) THEN "TRUE" ELSE "FALSE"
       IN  IF int_ok(a) /\ int_ok(b)
             THEN Ok(new_stack \o <<result>>,
                     "OP_GREATERTHAN: " \o a \o " > " \o b \o " is " \o result)
             ELSE Ok(new_stack \o <<"GREATERTHAN(" \o a \o "," \o b \o ")">>,
                     "OP_GREATERTHAN: Symbolic comparison of '" \o a \o "' > '" \o b \o "'")

execute_op_lessthanorequal(stack) ==
  IF Len(stack) < 2
    THEN Underflow(stack, "OP_LESSTHANOREQUAL failed: need at least 2 items",
                   "Stack underflow: OP_LESSTHANOREQUAL requires at least 2 items")
  ELSE LET a == FromEnd(stack, 2)
           b == FromEnd(stack, 1)
           new_stack == ButLast(stack, 2)
           result == IF int(a) <= int(b) THEN "TRUE" ELSE "FALSE"
       IN  IF int_ok(a) /\ int_ok(b)
             THEN Ok(new_stack \o <<result>>,
                     "OP_LESSTHANOREQUAL: " \o a \o " <= " \o b \o " is " \o result)
             ELSE Ok(new_stack \o <<"LESSTHANOREQUAL(" \o a \o "," \o b \o ")">>,
                     "OP_LESSTHANOREQUAL: Symbolic comparison")

execute_op_greaterthanorequal(stack) ==
  IF Len(stack) < 2
    THEN Underflow(stack, "OP_GREATERTHANOREQUAL failed: need at least 2 items",
                   "Stack underflow: OP_GREATERTHANOREQUAL requires at least 2 items")
  ELSE LET a == FromEnd(stack, 2)
           b == FromEnd(stack, 1)
           new_stack == ButLast(stack, 2)
           result == IF int(a) >= int(b) THEN "TRUE" ELSE "FALSE"
       IN  IF int_ok(a) /\ int_ok(b)
             THEN Ok(new_stack \o <<result>>,
                     "OP_GREATERTHANOREQUAL: " \o a \o " >= " \o b \o " is " \o result)
             ELSE Ok(new_stack \o <<"GREATERTHANOREQUAL(" \o a \o "," \o b \o ")">>,
                     "OP_GREATERTHANOREQUAL: Symbolic comparison")

execute_op_within(stack) ==
  IF Len(stack) < 3
    THEN Underflow(stack, "OP_WITHIN failed: need at least 3 items",
                   "Stack underflow: OP_WITHIN requires at least 3 items")
  ELSE LET x == FromEnd(stack, 3)
           min_val == FromEnd(stack, 2)
           max_val == FromEnd(stack, 1)
           new_stack == ButLast(stack, 3)
           result == IF int(min_val) <= int(x) /\ int(x) < int(max_val)
                       THEN "TRUE" ELSE "FALSE"
       IN  IF int_ok(x) /\ int_ok(min_val) /\ int_ok(max_val)
             THEN Ok(new_stack \o <<result>>,
                     "OP_WITHIN: " \o min_val \o " <= " \o x \o " < " \o max_val
                     \o " is " \o result)
             ELSE Ok(new_stack \o <<"WITHIN(" \o x \o "," \o min_val \o "," \o max_val \o ")">>,
                     "OP_WITHIN: Symbolic range check")

\* --- arithmetic

\* min(a, b) and max(a, b) and abs(a) of integers
min(a, b) == IF a <= b THEN a ELSE b

max(a, b) == IF a >= b THEN a ELSE b

abs(a) == IF a < 0 THEN 0 - a ELSE a

execute_op_add(stack) ==
  IF Len(stack) < 2
    THEN Underflow(stack, "OP_ADD failed: need at least 2 items",
                   "Stack underflow: OP_ADD requires at least 2 items")
  ELSE LET a == FromEnd(stack, 2)
           b == FromEnd(stack, 1)
           new_stack == ButLast(stack, 2)
           result == str(int(a) + int(b))
       IN  IF int_ok(a) /\ int_ok(b)
             THEN Ok(new_stack \o <<result>>, "OP_ADD: " \o a \o " + " \o b \o " = " \o result)
             ELSE Ok(new_stack \o <<"ADD(" \o a \o "," \o b \o ")">>,
                     "OP_ADD: Symbolic addition of '" \o a \o "' and '" \o b \o "'")

\* OP_SUB taking the second item from the top one
execute_op_sub_reversed(stack) ==
  IF Len(stack) < 2
    THEN Underflow(stack, "OP_SUB failed: need at least 2 items",
                   "Stack underflow: OP_SUB requires at least 2 items")
  ELSE IF int_ok(FromEnd(stack, 2)) /\ int_ok(FromEnd(stack, 1))
    THEN Ok(ButLast(stack, 2)
              \o <<str(int(FromEnd(stack, 1)) - int(FromEnd(stack, 2)))>>,
            "OP_SUB: " \o FromEnd(stack, 2) \o " - " \o FromEnd(stack, 1) \o " = "
              \o str(int(FromEnd(stack, 1)) - int(FromEnd(stack, 2))))
    ELSE Ok(ButLast(stack, 2)
              \o <<"SUB(" \o FromEnd(stack, 2) \o "," \o FromEnd(stack, 1) \o ")">>,
            "OP_SUB: Symbolic subtraction of '" \o FromEnd(stack, 1)
              \o "' from '" \o FromEnd(stack, 2) \o "'")

execute_op_sub(stack) ==
  IF Len(stack) < 2
    THEN Underflow(stack, "OP_SUB failed: need at least 2 items",
                   "Stack underflow: OP_SUB requires at least 2 items")
  ELSE LET a == FromEnd(stack, 2)
           b == FromEnd(stack, 1)
           new_stack == ButLast(stack, 2)
           result == str(int(a) - int(b))
       IN  IF int_ok(a) /\ int_ok(b)
             THEN Ok(new_stack \o <<result>>, "OP_SUB: " \o a \o " - " \o b \o " = " \o result)
             ELSE Ok(new_stack \o <<"SUB(" \o a \o "," \o b \o ")">>,
                     "OP_SUB: Symbolic subtraction of '" \o b \o "' from '" \o a \o "'")

execute_op_1add(stack) ==
  IF Len(stack) < 1
    THEN Underflow(stack, "OP_1ADD failed: stack is empty",
                   "Stack underflow: OP_1ADD requires at least 1 item")
  ELSE LET a == FromEnd(stack, 1)
           new_stack == ButLast(stack, 1)
           result == str(int(a) + 1)
       IN  IF int_ok(a)
             THEN Ok(new_stack \o <<result>>, "OP_1ADD: " \o a \o " + 1 = " \o result)
             ELSE Ok(new_stack \o <<"ADD1(" \o a \o ")">>,
                     "OP_1ADD: Symbolic increment of '" \o a \o "'")

execute_op_1sub(stack) ==
  IF Len(stack) < 1
    THEN Underflow(stack, "OP_1SUB failed: stack is empty",
                   "Stack underflow: OP_1SUB requires at least 1 item")
  ELSE LET a == FromEnd(stack, 1)
           new_stack == ButLast(stack, 1)
           result == str(int(a) - 1)
       IN  IF int_ok(a)
             THEN Ok(new_stack \o <<result>>, "OP_1SUB: " \o a \o " - 1 = " \o result)
             ELSE Ok(new_stack \o <<"SUB1(" \o a \o ")">>,
                     "OP_1SUB: Symbolic decrement of '" \o a \o "'")

execute_op_negate(stack) ==
  IF Len(stack) < 1
    THEN Underflow(stack, "OP_NEGATE failed: stack is empty",
                   "Stack underflow: OP_NEGATE requires at least 1 item")
  ELSE LET a == FromEnd(stack, 1)
           new_stack == ButLast(stack, 1)
           result == str(0 - int(a))
       IN  IF int_ok(a)
             THEN Ok(new_stack \o <<result>>, "OP_NEGATE: -" \o a \o " = " \o result)
             ELSE Ok(new_stack \o <<"NEGATE(" \o a \o ")">>,
                     "OP_NEGATE: Symbolic negation of '" \o a \o "'")

execute_op_abs(stack) ==
  IF Len(stack) < 1
    THEN Underflow(stack, "OP_ABS failed: stack is empty",
                   "Stack underflow: OP_ABS requires at least 1 item")
  ELSE LET a == FromEnd(stack, 1)
           new_stack == ButLast(stack, 1)
           result == str(abs(int(a)))
       IN  IF int_ok(a)
             THEN Ok(new_stack \o <<result>>, "OP_ABS: |" \o a \o "| = " \o result)
             ELSE Ok(new_stack \o <<"ABS(" \o a \o ")">>,
                     "OP_ABS: Symbolic absolute value of '" \o a \o "'")

execute_op_min(stack) ==
  IF Len(stack) < 2
    THEN Underflow(stack, "OP_MIN failed: need at least 2 items",
                   "Stack underflow: OP_MIN requires at least 2 items")
  ELSE LET a == FromEnd(stack, 2)
           b == FromEnd(stack, 1)
           new_stack == ButLast(stack, 2)
           result == str(min(int(a), int(b)))
       IN  IF int_ok(a) /\ int_ok(b)
             THEN Ok(new_stack \o <<result>>, "OP_MIN: min(" \o a \o ", " \o b \o ") = " \o result)
             ELSE Ok(new_stack \o <<"MIN(" \o a \o "," \o b \o ")">>,
                     "OP_MIN: Symbolic minimum of '" \o a \o "' and '" \o b \o "'")

execute_op_max(stack) ==
  IF Len(stack) < 2
    THEN Underflow(stack, "OP_MAX failed: need at least 2 items",
                   "Stack underflow: OP_MAX requires at least 2 items")
  ELSE LET a == FromEnd(stack, 2)
           b == FromEnd(stack, 1)
           new_stack == ButLast(stack, 2)
           result == str(max(int(a), int(b)))
       IN  IF int_ok(a) /\ int_ok(b)
             THEN Ok(new_stack \o <<result>>, "OP_MAX: max(" \o a \o ", " \o b \o ") = " \o result)
             ELSE Ok(new_stack \o <<"MAX(" \o a \o "," \o b \o ")">>,
                     "OP_MAX: Symbolic maximum of '" \o a \o "' and '" \o b \o "'")

\* --- logic

execute_op_not(stack) ==
  IF Len(stack) < 1
    THEN Underflow(stack, "OP_NOT failed: stack is empty",
                   "Stack underflow: OP_NOT requires at least 1 item")
  ELSE LET a == FromEnd(stack, 1)
           new_stack == ButLast(stack, 1)
       IN  IF a \in {"0", "FALSE", ""}
             THEN Ok(new_stack \o <<"1">>, "OP_NOT: NOT(" \o a \o ") = 1 (true)")
           ELSE IF a \in {"1", "TRUE"}
             THEN Ok(new_stack \o <<"0">>, "OP_NOT: NOT(" \o a \o ") = 0 (false)")
           ELSE Ok(new_stack \o <<"0">>,
                   "OP_NOT: NOT(" \o a \o ") = 0 (non-zero becomes false)")

execute_op_0notequal(stack) ==
  IF Len(stack) < 1
    THEN Underflow(stack, "OP_0NOTEQUAL failed: stack is empty",
                   "Stack underflow: OP_0NOTEQUAL requires at least 1 item")
  ELSE LET a == FromEnd(stack, 1)
           new_stack == ButLast(stack, 1)
       IN  IF a \in {"0", "FALSE", ""}
             THEN Ok(new_stack \o <<"0">>, "OP_0NOTEQUAL: " \o a \o " equals zero, pushed 0")
             ELSE Ok(new_stack \o <<"1">>, "OP_0NOTEQUAL: " \o a \o " is non-zero, pushed 1")

execute_op_booland(stack) ==
  IF Len(stack) < 2
    THEN Underflow(stack, "OP_BOOLAND failed: need at least 2 items",
                   "Stack underflow: OP_BOOLAND requires at least 2 items")
  ELSE LET a == FromEnd(stack, 2)
           b == FromEnd(stack, 1)
           a_bool == a \notin {"0", "FALSE", ""}
           b_bool == b \notin {"0", "FALSE", ""}
           result == IF a_bool /\ b_bool THEN "1" ELSE "0"
       IN  Ok(ButLast(stack, 2) \o <<result>>,
              "OP_BOOLAND: " \o a \o " AND " \o b \o " = " \o result)

execute_op_boolor(stack) ==
  IF Len(stack) < 2
    THEN Underflow(stack, "OP_BOOLOR failed: need at least 2 items",
                   "Stack underflow: OP_BOOLOR requires at least 2 items")
  ELSE LET a == FromEnd(stack, 2)
           b == FromEnd(stack, 1)
           a_bool == a \notin {"0", "FALSE", ""}
           b_bool == b \notin {"0", "FALSE", ""}
           result == IF a_bool \/ b_bool THEN "1" ELSE "0"
       IN  Ok(ButLast(stack, 2) \o <<result>>,
              "OP_BOOLOR: " \o a \o " OR " \o b \o " = " \o result)

\* --- signature (symbolic)

execute_op_checksig(stack) ==
  IF Len(stack) < 2
    THEN Underflow(stack, "OP_CHECKSIG failed: need signature and public key",
                   "Stack underflow: OP_CHECKSIG requires at least 2 items")
  ELSE LET pubkey == FromEnd(stack, 1)
           sig == FromEnd(stack, 2)
       IN  Ok(ButLast(stack, 2) \o <<"TRUE (symbolic signature verification)">>,
              "OP_CHECKSIG: Verified signature '" \o Take(sig, 16)
              \o "...' against pubkey '" \o Take(pubkey, 16) \o "...' (symbolic)")

\* OP_CHECKSIGVERIFY leaving nothing on the stack
execute_op_checksigverify_clearing(stack) ==
  IF Len(stack) < 2
    THEN Underflow(stack, "OP_CHECKSIGVERIFY failed: need signature and public key",
                   "Stack underflow: OP_CHECKSIGVERIFY requires at least 2 items")
  ELSE Ok(<<>>,
          "OP_CHECKSIGVERIFY: Verified and removed signature check result (symbolic)")

execute_op_checksigverify(stack) ==
  IF Len(stack) < 2
    THEN Underflow(stack, "OP_CHECKSIGVERIFY failed: need signature and public key",
                   "Stack underflow: OP_CHECKSIGVERIFY requires at least 2 items")
  ELSE Ok(ButLast(stack, 2),
          "OP_CHECKSIGVERIFY: Verified and removed signature check result (symbolic)")

execute_op_checkmultisig(stack) ==
  IF Len(stack) < 4
    THEN Underflow(stack, "OP_CHECKMULTISIG failed: insufficient items",
                   "Stack underflow: OP_CHECKMULTISIG requires more items")
  ELSE Ok(<<"TRUE (symbolic multisig verification)">>,
          "OP_CHECKMULTISIG: Symbolically verified M-of-N multisig (assumed valid)")

execute_op_checkmultisigverify(stack) ==
  IF Len(stack) < 4
    THEN Underflow(stack, "OP_CHECKMULTISIGVERIFY failed: insufficient items",
                   "Stack underflow: OP_CHECKMULTISIGVERIFY requires more items")
  ELSE Ok(<<>>,
          "OP_CHECKMULTISIGVERIFY: Symbolically verified multisig (assumed valid)")

\* --- flow control (symbolic)

\* OP_VERIFY comparing the top item as it is written
execute_op_verify_case_sensitive(stack) ==
  IF Len(stack) < 1
    THEN Underflow(stack, "OP_VERIFY failed: stack is empty",
                   "Stack underflow: OP_VERIFY requires at least 1 item")
  ELSE IF FromEnd(stack, 1) \in {"FALSE", "0", ""}
    THEN Failed(ButLast(stack, 1),
                "OP_VERIFY: Failed - '" \o FromEnd(stack, 1) \o "' is false/zero",
                "Verification failed: top stack item is false")
  ELSE Ok(ButLast(stack, 1),
          "OP_VERIFY: Verified '" \o FromEnd(stack, 1) \o "' is truthy - passed")

execute_op_verify(stack) ==
  IF Len(stack) < 1
    THEN Underflow(stack, "OP_VERIFY failed: stack is empty",
                   "Stack underflow: OP_VERIFY requires at least 1 item")
  ELSE LET top_item == FromEnd(stack, 1)
           new_stack == ButLast(stack, 1)
       IN  IF upper(top_item) \in {"FALSE", "0", ""}
             THEN Failed(new_stack,
                         "OP_VERIFY: Failed - '" \o top_item \o "' is false/zero",
                         "Verification failed: top stack item is false")
             ELSE Ok(new_stack,
                     "OP_VERIFY: Verified '" \o top_item \o "' is truthy - passed")

\* OP_RETURN failing the script, as it does on the network
execute_op_return_failing(stack) ==
  Failed(stack, "OP_RETURN: Script is provably unspendable (null data output)",
         "OP_RETURN encountered")

execute_op_return(stack) ==
  Ok(stack, "OP_RETURN: Script is provably unspendable (null data output)")

execute_op_if(stack) ==
  IF Len(stack) < 1
    THEN Underflow(stack, "OP_IF failed: stack is empty",
                   "Stack underflow: OP_IF requires at least 1 item")
  ELSE LET condition == FromEnd(stack, 1)
       IN  Ok(ButLast(stack, 1),
              "OP_IF: Condition '" \o condition \o "' evaluated (symbolic flow control)")

execute_op_notif(stack) ==
  IF Len(stack) < 1
    THEN Underflow(stack, "OP_NOTIF failed: stack is empty",
                   "Stack underflow: OP_NOTIF requires at least 1 item")
  ELSE LET condition == FromEnd(stack, 1)
       IN  Ok(ButLast(stack, 1),
              "OP_NOTIF: Inverted condition '" \o condition \o "' evaluated (symbolic)")

execute_op_else(stack) ==
  Ok(stack, "OP_ELSE: Switched to else branch (symbolic flow control)")

execute_op_endif(stack) ==
  Ok(stack, "OP_ENDIF: Ended conditional block")

execute_op_nop(stack) ==
  Ok(stack, "OP_NOP: No operation")

\* --- constants and data pushes

\* the handler make_constant_handler(value, description) returns, applied
make_constant_handler(value, description, stack) ==
  Ok(stack \o <<value>>, description \o ": Pushed '" \o value \o "' onto stack")

execute_data_push(data, stack) ==
  LET new_stack == stack \o <<data>>
      length == Len(data)
      data_type ==
        IF length = 40 THEN "hash (HASH160/20 bytes)"
        ELSE IF length = 64 THEN "hash (SHA256/32 bytes)"
        ELSE IF length = 66 \/ length = 130 THEN "public key"
        ELSE IF length >= 140 THEN "signature"
        ELSE IF length % 2 = 0 THEN "data (" \o str(length \div 2) \o " bytes)"
        ELSE "data"
  IN  Ok(new_stack,
         "PUSH: Added '" \o Take(data, 32) \o (IF Len(data) > 32 THEN "..." ELSE "")
         \o "' to stack (" \o data_type \o ")")

\* the depth each handler requires: the n of its guard `if len(stack) < n`,
\* 0 for a handler without one
min_depth(name) ==
  CASE name \in
      {"OP_DUP", "OP_DROP", "OP_SIZE", "OP_HASH160", "OP_SHA256",
       "OP_SHA1", "OP_RIPEMD160", "OP_HASH256", "OP_1ADD", "OP_1SUB",
       "OP_NEGATE", "OP_ABS", "OP_NOT", "OP_0NOTEQUAL", "OP_VERIFY",
       "OP_IF", "OP_NOTIF"} -> 1
    [] name \in
      {"OP_SWAP", "OP_OVER", "OP_NIP", "OP_TUCK", "OP_2DUP",
       "OP_2DROP", "OP_EQUAL", "OP_EQUALVERIFY", "OP_NUMEQUAL",
       "OP_NUMEQUALVERIFY", "OP_LESSTHAN", "OP_GREATERTHAN",
       "OP_LESSTHANOREQUAL", "OP_GREATERTHANOREQUAL", "OP_ADD",
       "OP_SUB", "OP_MIN", "OP_MAX", "OP_BOOLAND", "OP_BOOLOR",
       "OP_CHECKSIG", "OP_CHECKSIGVERIFY"} -> 2
    [] name \in
      {"OP_ROT", "OP_3DUP", "OP_WITHIN"} -> 3
    [] name \in
      {"OP_CHECKMULTISIG", "OP_CHECKMULTISIGVERIFY"} -> 4
    [] OTHER -> 0

\* the value each constant opcode pushes
constant_values ==
  [OP_0 |-> "0", OP_FALSE |-> "0", OP_1 |-> "1", OP_TRUE |-> "1",
   OP_1NEGATE |-> "-1", OP_2 |-> "2", OP_3 |-> "3", OP_4 |-> "4", OP_5 |-> "5",
   OP_6 |-> "6", OP_7 |-> "7", OP_8 |-> "8", OP_9 |-> "9", OP_10 |-> "10",
   OP_11 |-> "11", OP_12 |-> "12", OP_13 |-> "13", OP_14 |-> "14",
   OP_15 |-> "15", OP_16 |-> "16"]

\* the keys of OPCODE_HANDLERS that name a handler function
function_opcodes ==
  {"OP_DUP", "OP_DROP", "OP_SWAP", "OP_ROT", "OP_OVER", "OP_NIP",
   "OP_TUCK", "OP_2DUP", "OP_3DUP", "OP_2DROP", "OP_DEPTH", "OP_SIZE",
   "OP_HASH160", "OP_SHA256", "OP_SHA1", "OP_RIPEMD160", "OP_HASH256",
   "OP_EQUAL", "OP_EQUALVERIFY", "OP_NUMEQUAL", "OP_NUMEQUALVERIFY",
   "OP_LESSTHAN", "OP_GREATERTHAN", "OP_LESSTHANOREQUAL",
   "OP_GREATERTHANOREQUAL", "OP_WITHIN", "OP_ADD", "OP_SUB", "OP_1ADD",
   "OP_1SUB", "OP_NEGATE", "OP_ABS", "OP_MIN", "OP_MAX", "OP_NOT",
   "OP_0NOTEQUAL", "OP_BOOLAND", "OP_BOOLOR", "OP_CHECKSIG",
   "OP_CHECKSIGVERIFY", "OP_CHECKMULTISIG", "OP_CHECKMULTISIGVERIFY",
   "OP_VERIFY", "OP_RETURN", "OP_IF", "OP_NOTIF", "OP_ELSE", "OP_ENDIF",
   "OP_NOP"}

\* the keys of OPCODE_HANDLERS
OPCODE_HANDLERS == function_opcodes \cup DOMAIN constant_values

\* OPCODE_HANDLERS[name](stack), for name in OPCODE_HANDLERS
call_handler(name, stack) ==
  CASE name = "OP_DUP" -> execute_op_dup(stack)
    [] name = "OP_DROP" -> execute_op_drop(stack)
    [] name = "OP_SWAP" -> execute_op_swap(stack)
    [] name = "OP_ROT" -> execute_op_rot(stack)
    [] name = "OP_OVER" -> execute_op_over(stack)
    [] name = "OP_NIP" -> execute_op_nip(stack)
    [] name = "OP_TUCK" -> execute_op_tuck(stack)
    [] name = "OP_2DUP" -> execute_op_2dup(stack)
    [] name = "OP_3DUP" -> execute_op_3dup(stack)
    [] name = "OP_2DROP" -> execute_op_2drop(stack)
    [] name = "OP_DEPTH" -> execute_op_depth(stack)
    [] name = "OP_SIZE" -> execute_op_size(stack)
    [] name = "OP_HASH160" -> execute_op_hash160(stack)
    [] name = "OP_SHA256" -> execute_op_sha256(stack)
    [] name = "OP_SHA1" -> execute_op_sha1(stack)
    [] name = "OP_RIPEMD160" -> execute_op_ripemd160(stack)
    [] name = "OP_HASH256" -> execute_op_hash256(stack)
    [] name = "OP_EQUAL" -> execute_op_equal(stack)
    [] name = "OP_EQUALVERIFY" -> execute_op_equalverify(stack)
    [] name = "OP_NUMEQUAL" -> execute_op_numequal(stack)
    [] name = "OP_NUMEQUALVERIFY" -> execute_op_numequalverify(stack)
    [] name = "OP_LESSTHAN" -> execute_op_lessthan(stack)
    [] name = "OP_GREATERTHAN" -> execute_op_greaterthan(stack)
    [] name = "OP_LESSTHANOREQUAL" -> execute_op_lessthanorequal(stack)
    [] name = "OP_GREATERTHANOREQUAL" -> execute_op_greaterthanorequal(stack)
    [] name = "OP_WITHIN" -> execute_op_within(stack)
    [] name = "OP_ADD" -> execute_op_add(stack)
    [] name = "OP_SUB" -> execute_op_sub(stack)
    [] name = "OP_1ADD" -> execute_op_1add(stack)
    [] name = "OP_1SUB" -> execute_op_1sub(stack)
    [] name = "OP_NEGATE" -> execute_op_negate(stack)
    [] name = "OP_ABS" -> execute_op_abs(stack)
    [] name = "OP_MIN" -> execute_op_min(stack)
    [] name = "OP_MAX" -> execute_op_max(stack)
    [] name = "OP_NOT" -> execute_op_not(stack)
    [] name = "OP_0NOTEQUAL" -> execute_op_0notequal(stack)
    [] name = "OP_BOOLAND" -> execute_op_booland(stack)
    [] name = "OP_BOOLOR" -> execute_op_boolor(stack)
    [] name = "OP_CHECKSIG" -> execute_op_checksig(stack)
    [] name = "OP_CHECKSIGVERIFY" -> execute_op_checksigverify(stack)
    [] name = "OP_CHECKMULTISIG" -> execute_op_checkmultisig(stack)
    [] name = "OP_CHECKMULTISIGVERIFY" -> execute_op_checkmultisigverify(stack)
    [] name = "OP_VERIFY" -> execute_op_verify(stack)
    [] name = "OP_RETURN" -> execute_op_return(stack)
    [] name = "OP_IF" -> execute_op_if(stack)
    [] name = "OP_NOTIF" -> execute_op_notif(stack)
    [] name = "OP_ELSE" -> execute_op_else(stack)
    [] name = "OP_ENDIF" -> execute_op_endif(stack)
    [] name = "OP_NOP" -> execute_op_nop(stack)
    [] OTHER -> make_constant_handler(constant_values[name], name, stack)

is_opcode(token) == startswith(upper(token), "OP_")

(***************************************************************************)
(* explainer.py: the helpers of class Explainer.  A method that reads and  *)
(* assigns self.stack takes the stack and returns the new one beside its   *)
(* result.                                                                 *)
(***************************************************************************)

\* U+26A0 U+FE0F (warning sign) and U+2022 (bullet), in ASCII
WarningSign == "(!)"

Bullet == "*"

\* str(warning) inside an f-string: a None prints as "None"
format_optional(w) == IF w = None THEN "None" ELSE w[1]

\* `self.stack = result.stack; return result`
stored(result) == [result |-> result, stack |-> result.stack]

\* execute_token with a data push that leaves self.stack as it was
execute_token_stale_push(token, stack) ==
  IF upper(token) \in OPCODE_HANDLERS
    THEN stored(call_handler(upper(token), stack))
  ELSE IF is_opcode(token)
    THEN [result |-> Ok(stack, token \o ": Unknown opcode (treated as no-op for demonstration)"),
          stack |-> stack]
  ELSE [result |-> execute_data_push(token, stack), stack |-> stack]

\* execute_token failing on an opcode that has no handler
execute_token_rejecting_unknown(token, stack) ==
  IF upper(token) \in OPCODE_HANDLERS
    THEN stored(call_handler(upper(token), stack))
  ELSE IF is_opcode(token)
    THEN [result |-> Failed(stack, token \o ": Unknown opcode",
                            "Unknown opcode: " \o token),
          stack |-> stack]
  ELSE stored(execute_data_push(token, stack))

\* _execute_token: (result, self.stack afterwards)
execute_token(token, stack) ==
  IF upper(token) \in OPCODE_HANDLERS
    THEN stored(call_handler(upper(token), stack))
  ELSE IF is_opcode(token)
    THEN [result |-> Ok(stack, token \o ": Unknown opcode (treated as no-op for demonstration)"),
          stack |-> stack]
  ELSE stored(execute_data_push(token, stack))

\* the outcome of a recovery branch of _forgiving_execute
Recovered(new_stack, explanation, warning) ==
  [result |-> Ok(new_stack, explanation), warning |-> warning, stack |-> new_stack]

\* the loop `for _ in range(missing)` of the OP_CHECKSIG branch
RECURSIVE insert_assumed(_, _)
insert_assumed(stack, missing) ==
  IF missing = 0 THEN stack
  ELSE insert_assumed(
         <<IF Len(stack) = 0 THEN "<assumed_signature>" ELSE "<assumed_public_key>">>
           \o stack,
         missing - 1)

\* the loop `while len(self.stack) < 2` of the OP_EQUAL branch
RECURSIVE insert_symbolic_value(_)
insert_symbolic_value(stack) ==
  IF Len(stack) < 2 THEN insert_symbolic_value(<<"<symbolic_value>">> \o stack)
  ELSE stack

\* _forgiving_execute: (new_result, warning, self.stack afterwards)
\* a recovery branch that runs the handler again on the stack it filled
Retried(result, warning) ==
  Recovered(result.stack,
            result.explanation \o " " \o WarningSign \o " " \o warning,
            Some(warning))

\* a default branch that injects a placeholder and reports success
Unrecovered_after_injection(failed_result, stack) ==
  Recovered(stack \o <<"<symbolic_input>">>,
            failed_result.explanation \o " " \o WarningSign
              \o " Symbolic input injected.",
            Some("Symbolic input injected."))

\* the default branch: the failed result as it is, no warning
Unrecovered(failed_result, stack) ==
  [result |-> failed_result, warning |-> None, stack |-> stack]

forgiving_execute(token, failed_result, stack) ==
  LET token_upper == upper(token)
  IN
  IF token_upper = "OP_DUP" /\ Len(stack) < 1 THEN
    Retried(call_handler(token_upper, stack \o <<"<symbolic_input>">>),
            "Symbolic input injected for OP_DUP (empty stack).")
  ELSE IF token_upper = "OP_VERIFY" THEN
    LET stack1 == IF Len(stack) < 1 THEN stack \o <<"TRUE">> ELSE stack
        warning ==
          IF Len(stack) < 1
            THEN Some("Symbolic TRUE assumed for OP_VERIFY (empty stack).")
          ELSE IF startswith(FromEnd(stack, 1), "<")
                  \/ contains(lower(FromEnd(stack, 1)), "symbolic")
            THEN Some("Symbolic verification assumed to succeed.")
          ELSE None
        new_stack == IF stack1 # <<>> THEN ButLast(stack1, 1) ELSE <<>>
    IN  Recovered(new_stack,
                  "OP_VERIFY: Verification passed (symbolic). " \o WarningSign
                  \o " " \o format_optional(warning),
                  warning)
  ELSE IF token_upper = "OP_EQUALVERIFY" THEN
    LET stack1 == IF Len(stack) < 2
                    THEN <<"<symbolic_a>", "<symbolic_b>">> \o stack ELSE stack
        warning1 == IF Len(stack) < 2
                      THEN Some("Symbolic values assumed for OP_EQUALVERIFY.")
                      ELSE None
        new_stack == IF Len(stack1) >= 2 THEN ButLast(stack1, 2) ELSE <<>>
        warning == IF warning1 # None THEN warning1
                   ELSE Some("Symbolic verification assumed to succeed.")
    IN  Recovered(new_stack,
                  "OP_EQUALVERIFY: Symbolic equality verified. " \o WarningSign
                  \o " " \o format_optional(warning),
                  warning)
  ELSE IF token_upper = "OP_CHECKSIG" THEN
    LET missing == 2 - Len(stack)
        stack1 == IF Len(stack) < 2
                    THEN IF missing = 2
                           THEN <<"<assumed_signature>", "<assumed_public_key>">>
                           ELSE insert_assumed(stack, missing)
                    ELSE stack
        warning == IF Len(stack) < 2
                     THEN Some("Symbolic signature and public key assumed for educational execution.")
                     ELSE None
        new_stack == ButLast(stack1, 2) \o <<"TRUE">>
    IN  Recovered(new_stack,
                  "OP_CHECKSIG: Signature verified (symbolic). " \o WarningSign
                  \o " " \o format_optional(warning),
                  warning)
  ELSE IF token_upper = "OP_HASH160" /\ Len(stack) < 1 THEN
    Retried(call_handler(token_upper, stack \o <<"<symbolic_input>">>),
            "Symbolic input injected for OP_HASH160.")
  ELSE IF token_upper = "OP_EQUAL" /\ Len(stack) < 2 THEN
    Retried(call_handler(token_upper, insert_symbolic_value(stack)),
            "Symbolic values assumed for OP_EQUAL.")
  ELSE Unrecovered(failed_result, stack)

\* range(m + 1): one placeholder too many
sig_placeholders_one_more(m) == [k \in 1..(m + 1) |-> "<sig" \o str(k) \o ">"]

\* [f"<sig{i+1}>" for i in range(m)]
sig_placeholders(m) == [k \in 1..m |-> "<sig" \o str(k) \o ">"]

\* stack_consuming_ops without OP_DUP
stack_consuming_ops_without_dup ==
  <<"OP_HASH160", "OP_HASH256", "OP_SHA256",
    "OP_CHECKSIG", "OP_CHECKMULTISIG", "OP_EQUALVERIFY", "OP_EQUAL">>

\* the opcodes _detect_structural_stack takes to consume stack items
stack_consuming_ops ==
  <<"OP_DUP", "OP_HASH160", "OP_HASH256", "OP_SHA256",
    "OP_CHECKSIG", "OP_CHECKMULTISIG", "OP_EQUALVERIFY", "OP_EQUAL">>

detect_structural_stack(tokens) ==
  IF tokens = <<>> THEN <<>>
  ELSE
  LET normalized == normalize_tokens(tokens)
  IN
  IF /\ Len(normalized) >= 5
     /\ normalized[1] = "OP_DUP"
     /\ normalized[2] = "OP_HASH160"
     /\ FromEnd(normalized, 2) = "OP_EQUALVERIFY"
     /\ FromEnd(normalized, 1) = "OP_CHECKSIG"
    THEN <<"<signature>", "<public_key>">>
  ELSE IF /\ Len(normalized) >= 3
          /\ normalized[1] = "OP_HASH160"
          /\ FromEnd(normalized, 1) = "OP_EQUAL"
    THEN <<"<signature>", "<redeem_script>">>
  ELSE IF InList("OP_CHECKMULTISIG", normalized)
    THEN IF /\ Len(normalized) >= 4
            /\ is_small_num(normalized[1])
            /\ parse_small_num(normalized[1]) > 0
           THEN <<"<dummy>">> \o sig_placeholders(parse_small_num(normalized[1]))
           ELSE <<"<dummy>", "<sig1>", "<sig2>">>
  ELSE IF FromEnd(normalized, 1) = "OP_CHECKSIG" /\ ~InList("OP_DUP", normalized)
    THEN <<"<signature>">>
  ELSE IF \E k \in 1..Len(stack_consuming_ops) : InList(stack_consuming_ops[k], normalized)
    THEN <<"<symbolic_input>">>
  ELSE <<>>

\* a preload that gives a P2PK script no signature
get_symbolic_initial_stack_without_signature(script_type, tokens) ==
  IF script_type = P2PKH THEN <<"<signature>", "<public_key>">>
  ELSE IF script_type = P2SH THEN <<"<signature>", "<redeem_script>">>
  ELSE IF script_type = MULTISIG
    THEN IF tokens # <<>> /\ Len(tokens) >= 1 /\ parse_small_num(tokens[1]) > 0
           THEN <<"<dummy>">> \o sig_placeholders(parse_small_num(tokens[1]))
           ELSE <<"<dummy>", "<sig1>", "<sig2>">>
  ELSE IF script_type \in {P2PK, P2WPKH, P2WSH, P2TR, NULL_DATA} THEN <<>>
  ELSE detect_structural_stack(tokens)

get_symbolic_initial_stack(script_type, tokens) ==
  IF script_type = P2PKH THEN <<"<signature>", "<public_key>">>
  ELSE IF script_type = P2SH THEN <<"<signature>", "<redeem_script>">>
  ELSE IF script_type = P2PK THEN <<"<signature>">>
  ELSE IF script_type = MULTISIG
    THEN IF tokens # <<>> /\ Len(tokens) >= 1 /\ parse_small_num(tokens[1]) > 0
           THEN <<"<dummy>">> \o sig_placeholders(parse_small_num(tokens[1]))
           ELSE <<"<dummy>", "<sig1>", "<sig2>">>
  ELSE IF script_type \in {P2WPKH, P2WSH} THEN <<>>
  ELSE IF script_type = P2TR THEN <<>>
  ELSE IF script_type = NULL_DATA THEN <<>>
  ELSE detect_structural_stack(tokens)

\* _get_symbolic_initial_stack raises ValueError: line 265, in the branch of
\* the Multisig label
get_symbolic_initial_stack_raises(script_type, tokens) ==
  /\ script_type = MULTISIG
  /\ tokens # <<>>
  /\ parse_small_num_raises(tokens[1])

\* explain, lines 68 and 75, which no try statement encloses: the call of
\* detect_script_type or the call of _get_symbolic_initial_stack raises
explain_raises(tokens) ==
  \/ detect_script_type_raises(tokens)
  \/ /\ ~detect_script_type_raises(tokens)
     /\ get_symbolic_initial_stack_raises(detect_script_type(tokens)[1], tokens)

get_initial_stack_message(script_type, initial_stack) ==
  LET stack_display == join(", ", initial_stack)
  IN
  IF script_type = NULL_DATA
    THEN "OP_RETURN scripts are provably unspendable - no unlocking script required."
  ELSE IF script_type \in {P2WPKH, P2WSH, P2TR}
    THEN "SegWit/Taproot witness data is provided separately from the scriptPubKey."
  ELSE IF initial_stack = <<>>
    THEN "Initial stack is empty. This script may be custom or may require specific unlock conditions."
  ELSE IF InList("<symbolic_input>", initial_stack)
    THEN "Initial Symbolic Stack: [" \o stack_display \o "]\n"
         \o WarningSign \o " Symbolic input assumed for educational execution. "
         \o "This script uses stack operations but doesn't match standard templates."
  ELSE "Initial Symbolic Stack (represents scriptSig execution): [" \o stack_display \o "]\n"
       \o "This stack is preloaded to represent data pushed by the unlocking script "
       \o "(scriptSig) in real Bitcoin execution."

\* _generate_summary, reading self.steps and self.stack
generate_summary(steps, stack, script_type, type_description, success, parse_warning, initial_stack_message, warnings) ==
  LET parts ==
        <<"Script Type: " \o script_type, "\n" \o type_description>>
        \o (IF initial_stack_message # "" THEN <<"\n\n" \o initial_stack_message>> ELSE <<>>)
        \o (IF success
              THEN <<"\nExecution: Completed successfully with " \o str(Len(steps)) \o " steps.">>
                   \o (IF stack # <<>>
                         THEN <<"Final stack contains " \o str(Len(stack)) \o " item(s): "
                                \o join(", ", stack)>>
                         ELSE <<"Final stack is empty.">>)
              ELSE <<"\nExecution: Failed during step " \o str(Len(steps)) \o ".">>)
        \o (IF warnings # <<>>
              THEN <<"\n\n" \o WarningSign \o " FORGIVING EXECUTION WARNINGS:">>
                   \o [k \in 1..Len(warnings) |-> "  " \o Bullet \o " " \o warnings[k]]
              ELSE <<>>)
        \o (IF parse_warning # "" THEN <<"\nWarning: " \o parse_warning>> ELSE <<>>)
        \o <<"\n\n" \o WarningSign \o " DISCLAIMER: This is a symbolic simulation for educational purposes. "
             \o "It does not perform real cryptographic operations and should not be used "
             \o "for validating actual Bitcoin transactions.">>
  IN  join("\n", parts)

\* models.StackState
StackState(step, opcode, stack_before, stack_after, explanation) ==
  [step |-> step, opcode |-> opcode, stack_before |-> stack_before,
   stack_after |-> stack_after, explanation |-> explanation]

\* models.ScriptExplanation
ScriptExplanation(script, script_type, steps, summary, success, error) ==
  [script |-> script, script_type |-> script_type, steps |-> steps,
   summary |-> summary, success |-> success, error |-> error]

(***************************************************************************)
(* The scripts handed to explain, and the stacks handed to the handlers.   *)
(***************************************************************************)

\* longest script of the free family, in tokens
MaxTokens == 3

\* most public keys of a script of the multisig family
MaxKeys == 3

\* deepest stack handed to a handler on its own
MaxDepth == 4

\* 20-, 32- and 33-byte hex strings
Hex40 == "89abcdefabbaabbaabbaabbaabbaabbaabbaabba"

Hex64 == "e3b0c44298fc1c149afbf4c8996fb92427ae41e4649b934ca495991b7852b855"

Hex66 == "02" \o Hex64

CoreTokens ==
  {"OP_DUP", "OP_HASH160", "OP_EQUALVERIFY", "OP_CHECKSIG", "OP_EQUAL",
   "OP_VERIFY", "OP_RETURN", "OP_DROP", "0", "ab6807"}

\* tokens that are no opcode: hex, decimal and placeholder data
DataTokens ==
  {"ab6807", "AB6807", "0", "1", "16", "007", "0xab", Hex40, Hex66,
   "pubKeyHash", "<pubKeyHash>", "<script_hash>", "sig_1"}

\* the ways of writing a small number
SmallNumTokens ==
  {"0", "1", "2", "3", "16", "OP_0", "OP_1", "OP_2", "OP_3", "OP_16", "OP_TRUE"}

TokenSeqs(toks, n) == UNION {[1..k -> toks] : k \in 1..n}

FreeScripts == {join(" ", ts) : ts \in TokenSeqs(CoreTokens, MaxTokens)}

\* empty, blank, or holding a token that validate_token rejects
MalformedScripts ==
  {"", " ", "   ", " \t\n", "\n", "a.b", "$", "OP_DUP $", "ab68 a.b OP_DUP"}

P2PKHScripts ==
  {join(" ", <<"OP_DUP", "OP_HASH160", d, "OP_EQUALVERIFY", "OP_CHECKSIG">>) :
     d \in DataTokens}

P2SHScripts == {join(" ", <<"OP_HASH160", d, "OP_EQUAL">>) : d \in DataTokens}

P2PKScripts == {join(" ", <<d, "OP_CHECKSIG">>) : d \in DataTokens}

PublicKeys(k) == [j \in 1..k |-> "<pubkey" \o str(j) \o ">"]

MultisigScripts ==
  {join(" ", <<m>> \o PublicKeys(k) \o <<n, "OP_CHECKMULTISIG">>) :
     m \in SmallNumTokens, n \in SmallNumTokens, k \in 1..MaxKeys}

WitnessScripts ==
  {join(" ", <<v, d>>) :
     v \in {"0", "OP_0", "1", "OP_1", "OP_FALSE", "OP_TRUE"}, d \in {Hex40, Hex64}}

\* other casings and spacings of scripts of the families above
VariantScripts ==
  {"op_dup op_hash160 ab6807 op_equalverify op_checksig",
   "  OP_DUP   OP_HASH160\tab6807\nOP_EQUALVERIFY OP_CHECKSIG  ",
   "Op_Hash160 AB6807 oP_eQUAL", " OP_RETURN ", "op_return", "op_dup",
   "OP_FOO", "OP_DUP OP_FOO OP_DROP", "OP_ADD", "1 2 OP_ADD 3 OP_EQUAL",
   "OP_DUP OP_HASH160 ab6807 OP_EQUALVERIFY OP_CHECKSIG OP_VERIFY",
   "OP_DUP OP_HASH160 OP_DUP OP_EQUALVERIFY OP_CHECKSIG",
   "OP_HASH160 ab6807 ab6807 OP_EQUAL",
   "ab6807 OP_DUP OP_HASH160 ab6807 OP_EQUALVERIFY OP_CHECKSIG",
   "0x", "abc", "-1", "<>", "OP_DUP <a b>",
   "OP_CHECKMULTISIG", "1 OP_CHECKMULTISIG", "2 3 OP_CHECKMULTISIG",
   "20 <pubkey1> 20 OP_CHECKMULTISIG", "2 <pubkey1> <pubkey2> OP_CHECKMULTISIG 3",
   "OP_2 <pubkey1> <pubkey2> <pubkey3> OP_3 OP_CHECKMULTISIG OP_VERIFY",
   "OP_RETURN OP_CHECKMULTISIG", "OP_CHECKSIG OP_CHECKMULTISIG",
   "OP_RETURN OP_HASH160 ab6807 OP_EQUAL", "op_return <pubkey1> OP_CHECKSIG",
   "OP_RETURN 1 <pubkey1> 1 OP_CHECKMULTISIG", "OP_1 OP_CHECKSIG",
   "0x0xab", "0X0XaB OP_Drop", "0xAB", "-0xAb \t 1_f",
   "OP_SWAP", "1 OP_ADD", "OP_CHECKSIGVERIFY", "1 OP_CHECKMULTISIGVERIFY",
   "OP_DROP OP_CHECKSIGVERIFY OP_DUP", "OP_2DROP", "ab op_rot",
   "OP_DUP OP_DROP OP_DROP OP_DROP OP_DUP",
   "^", "^ OP_DUP", "1^ OP_CHECKMULTISIG", "^ OP_CHECKMULTISIG",
   "^ ab ^ OP_CHECKMULTISIG", "1 ab ^ OP_CHECKMULTISIG",
   "OP_1 ab 1^ OP_CHECKMULTISIG", "OP_RETURN ab ^ OP_CHECKMULTISIG",
   "0 OP_IF 2 OP_ELSE 3 OP_ENDIF", "1 OP_IF 2 OP_ELSE 3 OP_ENDIF",
   "0 OP_NOTIF 2 OP_ENDIF OP_NOP", "1 OP_NOTIF 2 OP_ENDIF", "OP_IF 2",
   "FALSE OP_IF OP_RETURN OP_ENDIF 2", "OP_RETURN 2 3 OP_ADD",
   "2 OP_RETURN OP_DUP OP_NOP", "OP_ELSE OP_ENDIF OP_NOP", "OP_RETURN OP_IF 2",
   "ab OP_RETURN OP_IF OP_RETURN OP_NOTIF",
   "2 OP_PICK OP_ROLL OP_CHECKLOCKTIMEVERIFY 3",
   "OP_RETURN OP_CHECKLOCKTIMEVERIFY ab", "op_pick OP_VERIFY",
   "DUP HASH160 ab6807 EQUALVERIFY CHECKSIG", "OP OP_ _OP_DUP",
   "ab 0 OP_VERIFY", "<sig1> 0 OP_VERIFY", "ab ab FALSE OP_VERIFY OP_VERIFY",
   "OP_VERIFY OP_EQUALVERIFY OP_EQUAL", "2 3 OP_EQUALVERIFY",
   "1 OP_RETURN OP_CHECKMULTISIG OP_VERIFY OP_3 OP_CHECKMULTISIG",
   "1 OP_DUP OP_DROP 1 OP_CHECKMULTISIG", "3 1 2 3 OP_CHECKMULTISIG",
   "OP_0 OP_DUP OP_HASH160 ab6807 OP_EQUALVERIFY OP_CHECKSIG 16 OP_CHECKMULTISIG",
   "OP_16 <pubkey1> <pubkey2> <pubkey3> <pubkey4> <pubkey5> 16 OP_CHECKMULTISIG",
   "17 <pubkey1> 17 OP_CHECKMULTISIG", "1 <pubkey1> OP_17 OP_CHECKMULTISIG",
   "007 <pubkey1> 010 OP_CHECKMULTISIG", "op_false ab OP_TRUE op_checkmultisig",
   "OP_CHECKMULTISIG OP_DUP", "OP_DROP OP_CHECKMULTISIG", "ab OP_CHECKMULTISIG",
   "OP_DUP OP_CHECKMULTISIG OP_CHECKSIG", "OP_DROP OP_DROP OP_DROP OP_CHECKMULTISIG",
   "OP_HASH160 OP_CHECKMULTISIG OP_EQUAL"}

Scripts ==
  FreeScripts \cup MalformedScripts \cup P2PKHScripts \cup P2SHScripts
  \cup P2PKScripts \cup MultisigScripts \cup WitnessScripts \cup VariantScripts

StackItems == {"2", "ab"}

\* operands for the arithmetic handlers: decimal numbers as int() reads them
\* (signed, with an underscore) and items int() rejects
ArithmeticItems == {"3", "4", "-5", "1_0", "+7", "ab", "0x10", "<sig1>"}

ArithmeticStacks ==
  LET operands == [1..1 -> ArithmeticItems] \cup [1..2 -> ArithmeticItems]
  IN  operands \cup {<<"ab">> \o s : s \in operands}

\* operands for OP_VERIFY and the boolean handlers: the spellings of false
\* and of true, and items that are neither
TruthItems ==
  {"0", "FALSE", "", "false", "False", "fALSE", "1", "TRUE", "true", "00",
   "-0", "EQUAL(ab,2)"}

TruthStacks ==
  LET operands == [1..1 -> TruthItems] \cup [1..2 -> TruthItems]
  IN  operands \cup {<<"ab">> \o s : s \in operands}

HandlerStacks ==
  UNION {[1..k -> StackItems] : k \in 0..MaxDepth} \cup ArithmeticStacks
  \cup TruthStacks

(***************************************************************************)
(* explainer.py: one call of Explainer.explain on a fresh Explainer, a     *)
(* step of the model being the call's entry, one pass of its loop, or its  *)
(* return.                                                                 *)
(***************************************************************************)

VARIABLES
  script,                 \* the argument of explain
  pc,                     \* "call", "loop", "summary", "done"; "handler" in SpecHandlers
  stack, steps, errors,   \* self.stack, self.steps, self.errors
  warnings,               \* self.warnings
  tokens, parse_warning,  \* the locals of explain
  script_type, type_description, is_forgiving_mode,
  initial_stack, initial_stack_message,
  i, success, error_message,
  results,                \* history: the result and warning of each pass of the loop
  returned,               \* the value explain returned, None before
  handler_call,           \* SpecHandlers: one handler called on its own
  calls,                  \* history: the calls of explain made on this Explainer
  parked,                 \* SpecShared: the locals of the call that is not running
  lookup,                 \* SpecLookup: the opcode asked for, and the answers
  tracker                 \* SpecTracker: visits.json and the calls of add_event

vars ==
  <<script, pc, stack, steps, errors, warnings, tokens, parse_warning,
    script_type, type_description, is_forgiving_mode, initial_stack,
    initial_stack_message, i, success, error_message, results, returned,
    handler_call, calls, parked, lookup, tracker>>

locals ==
  <<tokens, parse_warning, script_type, type_description, is_forgiving_mode,
    initial_stack, initial_stack_message, i, success, error_message>>

\* Explainer.__init__, and the locals of explain not yet assigned
Fresh ==
  /\ stack = <<>> /\ steps = <<>> /\ errors = <<>>
  /\ warnings = <<>>
  /\ tokens = <<>> /\ parse_warning = ""
  /\ script_type = "" /\ type_description = ""
  /\ is_forgiving_mode = FALSE
  /\ initial_stack = <<>> /\ initial_stack_message = ""
  /\ i = 0 /\ success = TRUE /\ error_message = None
  /\ results = <<>>
  /\ returned = None

Init ==
  /\ script \in Scripts
  /\ pc = "call"
  /\ Fresh
  /\ handler_call = None
  /\ calls = 1
  /\ parked = None
  /\ lookup = None
  /\ tracker = None

\* explain, lines 51-65: parse_script raises ParseError
ExplainParseError ==
  /\ pc = "call"
  /\ \E parsed \in {parse_script(script)} :
       /\ ~parsed.ok
       /\ returned' = Some(ScriptExplanation(
                        script, "Error", <<>>,
                        "Failed to parse script: " \o parsed.error,
                        FALSE, Some(parsed.error)))
  /\ stack' = <<>> /\ steps' = <<>> /\ errors' = <<>>
  /\ warnings' = <<>>
  /\ pc' = "done"
  /\ UNCHANGED <<script, locals, results, handler_call, calls,
                 parked, lookup, tracker>>

\* explain, lines 51-75: parse_script returned, and detect_script_type
\* (line 68) or _get_symbolic_initial_stack (line 75) raises ValueError, which
\* explain does not catch: the call ends with the exception, having reset the
\* fields and assigned the locals of the lines before
ExplainRaise ==
  /\ pc = "call"
  /\ \E parsed \in {parse_script(script)} :
       /\ parsed.ok
       /\ explain_raises(parsed.tokens)
       /\ tokens' = parsed.tokens
       /\ parse_warning' = parsed.warning_message
       /\ IF detect_script_type_raises(parsed.tokens)
            THEN UNCHANGED <<script_type, type_description, is_forgiving_mode>>
            ELSE \E detected \in {detect_script_type(parsed.tokens)} :
                   /\ script_type' = detected[1]
                   /\ type_description' = detected[2]
                   /\ is_forgiving_mode' = (detected[1] = UNKNOWN)
  /\ stack' = <<>> /\ steps' = <<>> /\ errors' = <<>>
  /\ warnings' = <<>>
  /\ pc' = "raised"
  /\ UNCHANGED <<script, initial_stack, initial_stack_message, i, success,
                 error_message, results, returned, handler_call, calls,
                 parked, lookup, tracker>>

\* ExplainStart without line 52: the warnings of the call before are kept
ExplainStart_keeping_warnings ==
  /\ pc = "call"
  /\ \E parsed \in {parse_script(script)} :
       /\ parsed.ok
       /\ ~explain_raises(parsed.tokens)
       /\ \E detected \in {detect_script_type(parsed.tokens)} :
          \E preload \in {get_symbolic_initial_stack(detected[1], parsed.tokens)} :
            /\ tokens' = parsed.tokens
            /\ parse_warning' = parsed.warning_message
            /\ script_type' = detected[1]
            /\ type_description' = detected[2]
            /\ is_forgiving_mode' = (detected[1] = UNKNOWN)
            /\ initial_stack' = preload
            /\ stack' = preload
            /\ initial_stack_message' = get_initial_stack_message(detected[1], preload)
            /\ pc' = IF parsed.tokens = <<>> THEN "summary" ELSE "loop"
  /\ steps' = <<>> /\ errors' = <<>>
  /\ warnings' = warnings
  /\ success' = TRUE
  /\ error_message' = None
  /\ i' = 0
  /\ UNCHANGED <<script, results, returned, handler_call, calls,
                 parked, lookup, tracker>>

\* explain, lines 51-81: parse, detect, preload
ExplainStart ==
  /\ pc = "call"
  /\ \E parsed \in {parse_script(script)} :
       /\ parsed.ok
       /\ ~explain_raises(parsed.tokens)
       /\ \E detected \in {detect_script_type(parsed.tokens)} :
          \E preload \in {get_symbolic_initial_stack(detected[1], parsed.tokens)} :
            /\ tokens' = parsed.tokens
            /\ parse_warning' = parsed.warning_message
            /\ script_type' = detected[1]
            /\ type_description' = detected[2]
            /\ is_forgiving_mode' = (detected[1] = UNKNOWN)
            /\ initial_stack' = preload
            /\ stack' = preload
            /\ initial_stack_message' = get_initial_stack_message(detected[1], preload)
            /\ pc' = IF parsed.tokens = <<>> THEN "summary" ELSE "loop"
  /\ steps' = <<>> /\ errors' = <<>>
  /\ warnings' = <<>>
  /\ success' = TRUE
  /\ error_message' = None
  /\ i' = 0
  /\ UNCHANGED <<script, results, returned, handler_call, calls,
                 parked, lookup, tracker>>

\* what _forgiving_execute gave, marked as an attempt at recovery
attempted(recovery) ==
  [result |-> recovery.result, stack |-> recovery.stack,
   warning |-> recovery.warning, recovered |-> TRUE]

\* the recovery attempted whatever the type detected
recover_always(token, executed, forgiving) ==
  IF ~executed.result.success
    THEN attempted(forgiving_execute(token, executed.result, executed.stack))
    ELSE [result |-> executed.result, stack |-> executed.stack,
          warning |-> None, recovered |-> FALSE]

\* explain, lines 90-93: the recovery of forgiving mode after _execute_token
recover(token, executed, forgiving) ==
  IF ~executed.result.success /\ forgiving
    THEN attempted(forgiving_execute(token, executed.result, executed.stack))
    ELSE [result |-> executed.result, stack |-> executed.stack,
          warning |-> None, recovered |-> FALSE]

\* explain, lines 87-93: _execute_token, then the recovery of forgiving mode
execute_with_recovery(token, stack_before, forgiving) ==
  recover(token, execute_token(token, stack_before), forgiving)

\* LoopBody putting its step before the steps taken so far
LoopBody_prepending(outcome) ==
  /\ stack' = outcome.stack
  /\ warnings' = IF outcome.warning # None
                   THEN Append(warnings, outcome.warning[1]) ELSE warnings
  /\ steps' = <<StackState(i, tokens[i + 1], stack, outcome.result.stack,
                           outcome.result.explanation)>> \o steps
  /\ results' = Append(results, [result |-> outcome.result,
                                 recovered |-> outcome.recovered,
                                 warning |-> outcome.warning])

\* explain, lines 83-102: one pass of the loop up to the append of its step.
\* The handlers catch the ValueError of every conversion they make and index
\* no list beyond the depth they have checked, so that no pass here takes the
\* except branch of lines 109-121.
LoopBody(outcome) ==
  /\ stack' = outcome.stack
  /\ warnings' = IF outcome.warning # None
                   THEN Append(warnings, outcome.warning[1]) ELSE warnings
  /\ steps' = Append(steps, StackState(i, tokens[i + 1], stack,
                                       outcome.result.stack,
                                       outcome.result.explanation))
  /\ results' = Append(results, [result |-> outcome.result,
                                 recovered |-> outcome.recovered,
                                 warning |-> outcome.warning])

\* LoopStep without the advance to the next token: the same token again
LoopStep_without_advance ==
  /\ pc = "loop"
  /\ i < Len(tokens)
  /\ \E outcome \in {execute_with_recovery(tokens[i + 1], stack, is_forgiving_mode)} :
       /\ outcome.result.success
       /\ LoopBody(outcome)
  /\ i' = i
  /\ pc' = "loop"
  /\ UNCHANGED <<script, errors, tokens, parse_warning, script_type,
                 type_description, is_forgiving_mode, initial_stack,
                 initial_stack_message, success, error_message, returned,
                 handler_call, calls,
                 parked, lookup, tracker>>

\* LoopStep with branches: after OP_IF has popped a false condition the next
\* token is not executed
LoopStep_skipping_branch ==
  /\ pc = "loop"
  /\ i < Len(tokens)
  /\ \E outcome \in {execute_with_recovery(tokens[i + 1], stack, is_forgiving_mode)} :
       /\ outcome.result.success
       /\ LoopBody(outcome)
  /\ i' = IF /\ tokens[i + 1] = "OP_IF"
             /\ stack # <<>>
             /\ FromEnd(stack, 1) \in {"0", "FALSE", ""}
             /\ i + 2 <= Len(tokens)
            THEN i + 2 ELSE i + 1
  /\ pc' = IF i' < Len(tokens) THEN "loop" ELSE "summary"
  /\ UNCHANGED <<script, errors, tokens, parse_warning, script_type,
                 type_description, is_forgiving_mode, initial_stack,
                 initial_stack_message, success, error_message, returned,
                 handler_call, calls,
                 parked, lookup, tracker>>

\* a pass whose result succeeded: on to the next token, or out of the loop
LoopStep ==
  /\ pc = "loop"
  /\ i < Len(tokens)
  /\ \E outcome \in {execute_with_recovery(tokens[i + 1], stack, is_forgiving_mode)} :
       /\ outcome.result.success
       /\ LoopBody(outcome)
  /\ i' = i + 1
  /\ pc' = IF i + 1 < Len(tokens) THEN "loop" ELSE "summary"
  /\ UNCHANGED <<script, errors, tokens, parse_warning, script_type,
                 type_description, is_forgiving_mode, initial_stack,
                 initial_stack_message, success, error_message, returned,
                 handler_call, calls,
                 parked, lookup, tracker>>

\* LoopBreak without its break: the loop goes on past the failed step
LoopBreak_without_break ==
  /\ pc = "loop"
  /\ i < Len(tokens)
  /\ \E outcome \in {execute_with_recovery(tokens[i + 1], stack, is_forgiving_mode)} :
       /\ ~outcome.result.success
       /\ LoopBody(outcome)
       /\ error_message' = Some(outcome.result.error)
  /\ success' = FALSE
  /\ i' = i + 1
  /\ pc' = IF i + 1 < Len(tokens) THEN "loop" ELSE "summary"
  /\ UNCHANGED <<script, errors, tokens, parse_warning, script_type,
                 type_description, is_forgiving_mode, initial_stack,
                 initial_stack_message, returned, handler_call, calls,
                 parked, lookup, tracker>>

\* a pass whose result failed: lines 104-107, break
LoopBreak ==
  /\ pc = "loop"
  /\ i < Len(tokens)
  /\ \E outcome \in {execute_with_recovery(tokens[i + 1], stack, is_forgiving_mode)} :
       /\ ~outcome.result.success
       /\ LoopBody(outcome)
       /\ error_message' = Some(outcome.result.error)
  /\ success' = FALSE
  /\ pc' = "summary"
  /\ UNCHANGED <<script, errors, tokens, parse_warning, script_type,
                 type_description, is_forgiving_mode, initial_stack,
                 initial_stack_message, i, returned, handler_call, calls,
                 parked, lookup, tracker>>

\* a return that leaves out the error message
ExplainReturn_without_error ==
  /\ pc = "summary"
  /\ returned' = Some(ScriptExplanation(
                   script, script_type, steps,
                   generate_summary(steps, stack, script_type, type_description,
                                    success, parse_warning,
                                    initial_stack_message, warnings),
                   success, None))
  /\ pc' = "done"
  /\ UNCHANGED <<script, stack, steps, errors, warnings, locals, results,
                 handler_call, calls,
                 parked, lookup, tracker>>

\* explain, lines 123-141: summary and return
ExplainReturn ==
  /\ pc = "summary"
  /\ returned' = Some(ScriptExplanation(
                   script, script_type, steps,
                   generate_summary(steps, stack, script_type, type_description,
                                    success, parse_warning,
                                    initial_stack_message, warnings),
                   success, error_message))
  /\ pc' = "done"
  /\ UNCHANGED <<script, stack, steps, errors, warnings, locals, results,
                 handler_call, calls,
                 parked, lookup, tracker>>

Next ==
  \/ ExplainParseError
  \/ ExplainRaise
  \/ ExplainStart
  \/ LoopStep
  \/ LoopBreak
  \/ ExplainReturn

Spec == Init /\ [][Next]_vars

\* a step of a call that has not ended, seen by the position in explain and
\* the pass counter, one of which every step of Next changes
Proceeds ==
  /\ pc \notin {"done", "raised"}
  /\ pc' \in {"loop", "summary", "done", "raised"}
  /\ i' \in 0..Len(tokens)

\* explain is one sequential call: the thread that runs it goes on, step after
\* step, until the call has ended
SpecFair == Spec /\ WF_<<pc, i>>(Proceeds)

(***************************************************************************)
(* opcodes.py: each handler of the registry, and the data push, called on  *)
(* its own on a stack.                                                     *)
(***************************************************************************)

InitHandlers ==
  /\ script = ""
  /\ pc = "handler"
  /\ Fresh
  /\ calls = 0
  /\ parked = None
  /\ lookup = None
  /\ tracker = None
  /\ handler_call \in
       {[name |-> n, stack |-> s, result |-> None] :
          n \in OPCODE_HANDLERS \cup DataTokens, s \in HandlerStacks}

\* OPCODE_HANDLERS[name](stack)
CallHandler ==
  /\ pc = "handler"
  /\ handler_call.result = None
  /\ handler_call.name \in OPCODE_HANDLERS
  /\ handler_call' =
       [handler_call EXCEPT
          !.result = Some(call_handler(handler_call.name, handler_call.stack))]
  /\ UNCHANGED <<script, pc, stack, steps, errors, warnings, locals, results,
                 returned, calls, parked, lookup, tracker>>

\* execute_data_push(data, stack)
CallDataPush ==
  /\ pc = "handler"
  /\ handler_call.result = None
  /\ handler_call.name \notin OPCODE_HANDLERS
  /\ handler_call' =
       [handler_call EXCEPT
          !.result = Some(execute_data_push(handler_call.name, handler_call.stack))]
  /\ UNCHANGED <<script, pc, stack, steps, errors, warnings, locals, results,
                 returned, calls, parked, lookup, tracker>>

NextHandlers == CallHandler \/ CallDataPush

SpecHandlers == InitHandlers /\ [][NextHandlers]_vars

(***************************************************************************)
(* explainer.py: explain_script, the call of explain on an Explainer made   *)
(* for it, as one operator; and one Explainer on which explain is called    *)
(* again after it returned.                                                 *)
(***************************************************************************)

\* the fields and locals after one pass of the loop of explain, lines 83-107
after_pass(run, token, outcome) ==
  [i |-> IF outcome.result.success THEN run.i + 1 ELSE run.i,
   stack |-> outcome.stack,
   steps |-> Append(run.steps,
                    StackState(run.i, token, run.stack, outcome.result.stack,
                               outcome.result.explanation)),
   warnings |-> IF outcome.warning # None
                  THEN Append(run.warnings, outcome.warning[1])
                  ELSE run.warnings,
   success |-> outcome.result.success,
   error_message |-> IF outcome.result.success
                       THEN None ELSE Some(outcome.result.error)]

\* the loop of explain from pass run.i on, to its end or its break
RECURSIVE run_loop(_, _, _)
run_loop(toks, forgiving, run) ==
  IF run.i >= Len(toks) \/ ~run.success THEN run
  ELSE run_loop(toks, forgiving,
                after_pass(run, toks[run.i + 1],
                           execute_with_recovery(toks[run.i + 1], run.stack,
                                                 forgiving)))

\* explain, lines 123-141, from the state the loop left
explain_summarized(text, parsed, detected, preload, run) ==
  ScriptExplanation(
    text, detected[1], run.steps,
    generate_summary(run.steps, run.stack, detected[1], detected[2],
                     run.success, parsed.warning_message,
                     get_initial_stack_message(detected[1], preload),
                     run.warnings),
    run.success, run.error_message)

\* explain, lines 75-121, from the preloaded stack
explain_preloaded(text, parsed, detected, preload) ==
  explain_summarized(
    text, parsed, detected, preload,
    run_loop(parsed.tokens, detected[1] = UNKNOWN,
             [i |-> 0, stack |-> preload, steps |-> <<>>, warnings |-> <<>>,
              success |-> TRUE, error_message |-> None]))

\* explain, lines 67-77, from the type detected
explain_detected(text, parsed, detected) ==
  explain_preloaded(text, parsed, detected,
                    get_symbolic_initial_stack(detected[1], parsed.tokens))

\* explain, lines 55-68, from the outcome of parse_script
explain_parsed(text, parsed) ==
  IF ~parsed.ok
    THEN Some(ScriptExplanation(text, "Error", <<>>,
                                "Failed to parse script: " \o parsed.error,
                                FALSE, Some(parsed.error)))
  ELSE IF explain_raises(parsed.tokens) THEN None
  ELSE Some(explain_detected(text, parsed, detect_script_type(parsed.tokens)))

\* explain_script(script): Explainer().explain(script); what it returns, as
\* Some(explanation), or None when the call raises
explain_script(text) == explain_parsed(text, parse_script(text))

\* most calls of explain made on one Explainer
MaxCalls == 3

\* the scripts of the calls made on one Explainer: scripts that succeed, that
\* fail, that do not parse, and that are recovered with a warning
ReuseScripts ==
  {"OP_DUP OP_HASH160 ab6807 OP_EQUALVERIFY OP_CHECKSIG",
   "OP_HASH160 ab6807 OP_EQUAL", "OP_RETURN", "OP_RETURN OP_DUP",
   "OP_DROP OP_DUP", "OP_DROP OP_DROP", "0 OP_VERIFY", "OP_VERIFY OP_VERIFY",
   "OP_DROP OP_EQUAL OP_DROP OP_HASH160 OP_DROP OP_CHECKSIG", "ab6807",
   "1 2 OP_ADD 3 OP_EQUAL", "2 <pubkey1> <pubkey2> 2 OP_CHECKMULTISIG",
   "1 OP_CHECKMULTISIG", "OP_FOO", "", "$", "ab68 a.b OP_DUP",
   "^ OP_CHECKMULTISIG"}

InitReuse ==
  /\ script \in ReuseScripts
  /\ pc = "call"
  /\ Fresh
  /\ handler_call = None
  /\ calls = 1
  /\ parked = None
  /\ lookup = None
  /\ tracker = None

\* explain is called again on the Explainer: the fields are as the call before
\* left them, the locals are those of a new call
ExplainAgain ==
  /\ pc \in {"done", "raised"}
  /\ calls < MaxCalls
  /\ calls' = calls + 1
  /\ script' \in ReuseScripts
  /\ pc' = "call"
  /\ tokens' = <<>> /\ parse_warning' = ""
  /\ script_type' = "" /\ type_description' = ""
  /\ is_forgiving_mode' = FALSE
  /\ initial_stack' = <<>> /\ initial_stack_message' = ""
  /\ i' = 0 /\ success' = TRUE /\ error_message' = None
  /\ results' = <<>>
  /\ returned' = None
  /\ UNCHANGED <<stack, steps, errors, warnings, handler_call, parked, lookup, tracker>>

NextReuse == Next \/ ExplainAgain

SpecReuse == InitReuse /\ [][NextReuse]_vars

(***************************************************************************)
(* explainer.py: two calls of explain on one Explainer, made by two threads *)
(* and interleaved between the passes of their loops.  The fields stack,    *)
(* steps, errors and warnings are the Explainer's, and both calls use them; *)
(* the locals are each call's own: those of the call that runs are the      *)
(* variables, those of the other call are parked.                           *)
(***************************************************************************)

\* the locals of a call that has not begun
new_frame(text) ==
  [script |-> text, pc |-> "call", tokens |-> <<>>, parse_warning |-> "",
   script_type |-> "", type_description |-> "", is_forgiving_mode |-> FALSE,
   initial_stack |-> <<>>, initial_stack_message |-> "", i |-> 0,
   success |-> TRUE, error_message |-> None, results |-> <<>>,
   returned |-> None]

\* the locals of the call that runs
running_frame ==
  [script |-> script, pc |-> pc, tokens |-> tokens,
   parse_warning |-> parse_warning, script_type |-> script_type,
   type_description |-> type_description,
   is_forgiving_mode |-> is_forgiving_mode, initial_stack |-> initial_stack,
   initial_stack_message |-> initial_stack_message, i |-> i,
   success |-> success, error_message |-> error_message,
   results |-> results, returned |-> returned]

\* the scripts of the two calls
SharedScripts ==
  {"OP_DUP OP_HASH160 ab6807 OP_EQUALVERIFY OP_CHECKSIG",
   "OP_HASH160 ab6807 OP_EQUAL", "OP_RETURN", "OP_DROP OP_DUP", "ab6807 OP_DROP",
   "$", "^ OP_CHECKMULTISIG"}

InitShared ==
  /\ script \in SharedScripts
  /\ pc = "call"
  /\ Fresh
  /\ handler_call = None
  /\ calls = 2
  /\ parked \in {Some(new_frame(text)) : text \in SharedScripts \ {script}}
  /\ lookup = None
  /\ tracker = None

\* the thread that runs is suspended and the other thread goes on
Switch ==
  /\ parked # None
  /\ parked' = Some(running_frame)
  /\ script' = parked[1].script
  /\ pc' = parked[1].pc
  /\ tokens' = parked[1].tokens
  /\ parse_warning' = parked[1].parse_warning
  /\ script_type' = parked[1].script_type
  /\ type_description' = parked[1].type_description
  /\ is_forgiving_mode' = parked[1].is_forgiving_mode
  /\ initial_stack' = parked[1].initial_stack
  /\ initial_stack_message' = parked[1].initial_stack_message
  /\ i' = parked[1].i
  /\ success' = parked[1].success
  /\ error_message' = parked[1].error_message
  /\ results' = parked[1].results
  /\ returned' = parked[1].returned
  /\ UNCHANGED <<stack, steps, errors, warnings, handler_call, calls,
                 lookup, tracker>>

NextShared == Next \/ Switch

SpecShared == InitShared /\ [][NextShared]_vars

(***************************************************************************)
(* opcodes.py, explainer.py, main.py: the descriptions of the opcodes, the *)
(* lookup of one opcode and the listing of all of them.                    *)
(***************************************************************************)

\* OPCODE_DESCRIPTIONS, opcodes.py lines 32-121
OPCODE_DESCRIPTIONS ==
  [OP_DUP |-> "Duplicates the top stack item",
   OP_DROP |-> "Removes the top stack item",
   OP_SWAP |-> "Swaps the top two stack items",
   OP_ROT |-> "Rotates the top three items (third becomes top)",
   OP_OVER |-> "Copies the second item to the top",
   OP_NIP |-> "Removes the second item from the stack",
   OP_TUCK |-> "Copies the top item below the second item",
   OP_2DUP |-> "Duplicates the top two stack items",
   OP_3DUP |-> "Duplicates the top three stack items",
   OP_2DROP |-> "Removes the top two stack items",
   OP_PICK |-> "Copies the nth item to the top (n is top item)",
   OP_ROLL |-> "Moves the nth item to the top (n is top item)",
   OP_DEPTH |-> "Pushes the stack size onto the stack",
   OP_SIZE |-> "Pushes the size of the top item (in bytes)",
   OP_HASH160 |-> "Performs RIPEMD160(SHA256(x)) on the top stack item",
   OP_SHA256 |-> "Performs SHA-256 on the top stack item",
   OP_SHA1 |-> "Performs SHA-1 on the top stack item",
   OP_RIPEMD160 |-> "Performs RIPEMD-160 on the top stack item",
   OP_HASH256 |-> "Performs SHA256(SHA256(x)) on the top stack item",
   OP_EQUAL |-> "Compares top two stack items, pushes TRUE if equal, FALSE otherwise",
   OP_EQUALVERIFY |-> "Same as OP_EQUAL, but removes result and fails if FALSE",
   OP_NUMEQUAL |-> "Compares two numbers, pushes TRUE if equal",
   OP_NUMEQUALVERIFY |-> "Same as OP_NUMEQUAL, but fails if FALSE",
   OP_LESSTHAN |-> "Pushes TRUE if second item is less than top item",
   OP_GREATERTHAN |-> "Pushes TRUE if second item is greater than top item",
   OP_LESSTHANOREQUAL |-> "Pushes TRUE if second item is less than or equal to top",
   OP_GREATERTHANOREQUAL |-> "Pushes TRUE if second item is greater than or equal to top",
   OP_WITHIN |-> "Pushes TRUE if x is within range [min, max)",
   OP_ADD |-> "Adds top two items",
   OP_SUB |-> "Subtracts top item from second item",
   OP_1ADD |-> "Adds 1 to the top item",
   OP_1SUB |-> "Subtracts 1 from the top item",
   OP_NEGATE |-> "Negates the top item",
   OP_ABS |-> "Returns absolute value of top item",
   OP_MIN |-> "Returns the smaller of top two items",
   OP_MAX |-> "Returns the larger of top two items",
   OP_NOT |-> "Flips the boolean value (0 becomes 1, non-zero becomes 0)",
   OP_0NOTEQUAL |-> "Returns 1 if top item is non-zero, else 0",
   OP_BOOLAND |-> "Boolean AND of top two items",
   OP_BOOLOR |-> "Boolean OR of top two items",
   OP_CHECKSIG |-> "Verifies a signature against a public key",
   OP_CHECKSIGVERIFY |-> "Same as OP_CHECKSIG, but fails if FALSE",
   OP_CHECKMULTISIG |-> "Verifies multiple signatures against multiple public keys",
   OP_CHECKMULTISIGVERIFY |-> "Same as OP_CHECKMULTISIG, but fails if FALSE",
   OP_IF |-> "Executes following statements if top item is TRUE",
   OP_NOTIF |-> "Executes following statements if top item is FALSE",
   OP_ELSE |-> "Executes following statements if preceding OP_IF was FALSE",
   OP_ENDIF |-> "Ends an IF/ELSE block",
   OP_VERIFY |-> "Removes top stack item and fails if it's FALSE or zero",
   OP_RETURN |-> "Marks transaction output as invalid (used for data embedding)",
   OP_0 |-> "Pushes an empty array (falsy value)",
   OP_FALSE |-> "Pushes an empty array (alias for OP_0)",
   OP_1 |-> "Pushes the number 1",
   OP_TRUE |-> "Pushes the number 1 (alias for OP_1)",
   OP_1NEGATE |-> "Pushes the number -1",
   OP_2 |-> "Pushes the number 2",
   OP_3 |-> "Pushes the number 3",
   OP_4 |-> "Pushes the number 4",
   OP_5 |-> "Pushes the number 5",
   OP_6 |-> "Pushes the number 6",
   OP_7 |-> "Pushes the number 7",
   OP_8 |-> "Pushes the number 8",
   OP_9 |-> "Pushes the number 9",
   OP_10 |-> "Pushes the number 10",
   OP_11 |-> "Pushes the number 11",
   OP_12 |-> "Pushes the number 12",
   OP_13 |-> "Pushes the number 13",
   OP_14 |-> "Pushes the number 14",
   OP_15 |-> "Pushes the number 15",
   OP_16 |-> "Pushes the number 16",
   OP_NOP |-> "Does nothing"]

\* get_opcode_description(opcode)
get_opcode_description(opcode) ==
  IF upper(opcode) \in DOMAIN OPCODE_DESCRIPTIONS
    THEN OPCODE_DESCRIPTIONS[upper(opcode)]
    ELSE "Unknown opcode: " \o opcode

\* get_opcode_info(opcode), explainer.py lines 477-495
get_opcode_info(opcode) ==
  [opcode |-> upper(opcode),
   known |-> upper(opcode) \in OPCODE_HANDLERS,
   description |-> IF upper(opcode) \in OPCODE_HANDLERS
                     THEN get_opcode_description(upper(opcode))
                     ELSE "Unknown opcode"]

\* list_opcodes(), main.py lines 116-126: the field supported_opcodes
list_opcodes == OPCODE_DESCRIPTIONS

\* the names asked for: those of the registry and of the description table,
\* in upper, lower and mixed case, and names that are in neither
LookupNames ==
  OPCODE_HANDLERS \cup DOMAIN OPCODE_DESCRIPTIONS
  \cup {lower(n) : n \in DOMAIN OPCODE_DESCRIPTIONS}
  \cup {"Op_Dup", "oP_pICK", "OP_FOO", "OP_CHECKLOCKTIMEVERIFY", "OP_NUMNOTEQUAL",
        "OP_", "DUP", "ab6807", "", " OP_DUP", "OP_DUP ", "op_17"}

InitLookup ==
  /\ script = ""
  /\ pc = "lookup"
  /\ Fresh
  /\ handler_call = None
  /\ calls = 0
  /\ parked = None
  /\ lookup \in {[opcode |-> n, info |-> None, listing |-> None] : n \in LookupNames}
  /\ tracker = None

\* GET /opcode/{opcode}: get_opcode_info(opcode)
GetOpcodeInfo ==
  /\ pc = "lookup"
  /\ lookup.info = None
  /\ lookup' = [lookup EXCEPT !.info = Some(get_opcode_info(lookup.opcode))]
  /\ UNCHANGED <<script, pc, stack, steps, errors, warnings, locals, results,
                 returned, handler_call, calls, parked, tracker>>

\* GET /opcodes: list_opcodes()
ListOpcodes ==
  /\ pc = "lookup"
  /\ lookup.listing = None
  /\ lookup' = [lookup EXCEPT !.listing = Some(list_opcodes)]
  /\ UNCHANGED <<script, pc, stack, steps, errors, warnings, locals, results,
                 returned, handler_call, calls, parked, tracker>>

NextLookup == GetOpcodeInfo \/ ListOpcodes

SpecLookup == InitLookup /\ [][NextLookup]_vars

(***************************************************************************)
(* tracker.py: calls of add_event that run at the same time on the one     *)
(* file visits.json, and get_stats.  A step of a call is its validation    *)
(* and its load of the file, the opening of the file for writing, or the   *)
(* write and the return.  No lock is taken anywhere in tracker.py.         *)
(***************************************************************************)

\* calls of add_event that run at the same time
MaxCallers == 2

Callers == 1..MaxCallers

\* the values of EventType
EventType == {"page_visit", "script_explained"}

\* the arguments the calls are made with
SessionIds == {"a1", " b2 ", "", "  "}

EventTypeArguments == {"page_visit", "script_explained", "click"}

\* timedelta(minutes=5), in ticks of the clock of one second
FiveMinutes == 300

\* visits.json: "absent", "empty" (opened for writing and nothing written
\* yet), "json" (the text of a list of events) or "corrupt" (text that
\* json.loads rejects)
VisitsFile(state, events) == [state |-> state, events |-> events]

\* the states of visits.json the calls start from
InitialFiles ==
  {VisitsFile("absent", <<>>),
   VisitsFile("json", <<[session_id |-> "z9", event_type |-> "page_visit",
                         timestamp |-> 0]>>)}

\* load_events: [] when the file does not exist, is empty or is no JSON
load_events(file) == IF file.state = "json" THEN file.events ELSE <<>>

\* add_event, lines 86-92: the validation of the arguments
valid_arguments(session_id, event_type) ==
  /\ event_type \in EventType
  /\ session_id # ""
  /\ strip(session_id) # ""

\* get_stats on the events loaded at the time now
get_stats(events, now) ==
  [lifetime_views |->
     Cardinality({k \in 1..Len(events) : events[k].event_type = "page_visit"}),
   total_scripts_explained |->
     Cardinality({k \in 1..Len(events) : events[k].event_type = "script_explained"}),
   current_active_users |->
     Cardinality({events[k].session_id :
                    k \in {j \in 1..Len(events) :
                             events[j].timestamp > now - FiveMinutes}})]

InitTracker ==
  /\ script = ""
  /\ pc = "tracker"
  /\ Fresh
  /\ handler_call = None
  /\ calls = 0
  /\ parked = None
  /\ lookup = None
  /\ tracker \in
       {[visits_file |-> f, initial |-> f, clock |-> 1, stats |-> None,
         calls |-> cs] :
          f \in InitialFiles,
          cs \in [Callers ->
                    {[session_id |-> s, event_type |-> t, pc |-> "call",
                      event |-> None, events |-> <<>>, returned |-> None] :
                       s \in SessionIds, t \in EventTypeArguments}]}

\* add_event, lines 86-92: an argument is rejected, return False
AddEventReject ==
  /\ pc = "tracker"
  /\ \E c \in Callers :
       /\ tracker.calls[c].pc = "call"
       /\ ~valid_arguments(tracker.calls[c].session_id, tracker.calls[c].event_type)
       /\ tracker' = [tracker EXCEPT !.calls[c].pc = "done",
                                     !.calls[c].returned = Some(FALSE)]
  /\ UNCHANGED <<script, pc, stack, steps, errors, warnings, locals, results,
                 returned, handler_call, calls, parked, lookup>>

\* add_event, lines 94-100: the event is built with the time read from the
\* clock, and load_events reads the file
AddEventLoad ==
  /\ pc = "tracker"
  /\ \E c \in Callers :
       /\ tracker.calls[c].pc = "call"
       /\ valid_arguments(tracker.calls[c].session_id, tracker.calls[c].event_type)
       /\ tracker' =
            [tracker EXCEPT
               !.clock = tracker.clock + 1,
               !.calls[c].event =
                  Some([session_id |-> strip(tracker.calls[c].session_id),
                        event_type |-> tracker.calls[c].event_type,
                        timestamp |-> tracker.clock]),
               !.calls[c].events = load_events(tracker.visits_file),
               !.calls[c].pc = "loaded"]
  /\ UNCHANGED <<script, pc, stack, steps, errors, warnings, locals, results,
                 returned, handler_call, calls, parked, lookup>>

\* add_event, line 101, and save_events, line 67: the event is appended to
\* the list loaded, and open(VISITS_FILE, "w") truncates the file
AddEventOpen ==
  /\ pc = "tracker"
  /\ \E c \in Callers :
       /\ tracker.calls[c].pc = "loaded"
       /\ tracker' =
            [tracker EXCEPT
               !.visits_file = VisitsFile("empty", <<>>),
               !.calls[c].events = Append(tracker.calls[c].events,
                                          tracker.calls[c].event[1]),
               !.calls[c].pc = "writing"]
  /\ UNCHANGED <<script, pc, stack, steps, errors, warnings, locals, results,
                 returned, handler_call, calls, parked, lookup>>

\* save_events, line 68, and add_event, line 104: json.dump writes the list
\* from the start of the file and the file is closed; return True.  When
\* another call has written since this one opened the file, the text of
\* this call lies over the text of the other: the file holds the list of
\* this call, or, the other text being longer, text that is no JSON.
AddEventWrite ==
  /\ pc = "tracker"
  /\ \E c \in Callers :
       /\ tracker.calls[c].pc = "writing"
       /\ \E written \in
            IF tracker.visits_file.state = "empty"
              THEN {VisitsFile("json", tracker.calls[c].events)}
              ELSE {VisitsFile("json", tracker.calls[c].events),
                    VisitsFile("corrupt", <<>>)} :
            tracker' = [tracker EXCEPT !.visits_file = written,
                                       !.calls[c].pc = "done",
                                       !.calls[c].returned = Some(TRUE)]
  /\ UNCHANGED <<script, pc, stack, steps, errors, warnings, locals, results,
                 returned, handler_call, calls, parked, lookup>>

\* GET /stats, once every call has returned: get_stats()
GetStats ==
  /\ pc = "tracker"
  /\ tracker.stats = None
  /\ \A c \in Callers : tracker.calls[c].pc = "done"
  /\ tracker' = [tracker EXCEPT
                   !.stats = Some(get_stats(load_events(tracker.visits_file),
                                            tracker.clock))]
  /\ UNCHANGED <<script, pc, stack, steps, errors, warnings, locals, results,
                 returned, handler_call, calls, parked, lookup>>

NextTracker ==
  \/ AddEventReject
  \/ AddEventLoad
  \/ AddEventOpen
  \/ AddEventWrite
  \/ GetStats

SpecTracker == InitTracker /\ [][NextTracker]_vars

(***************************************************************************)
(* The properties.                                                         *)
(***************************************************************************)

\* the ScriptExplanation that explain returned
explanation == returned[1]

\* explain has run its loop on the tokens of a script that parsed
Executed == pc \in {"summary", "done"}

AllStepsSucceeded == \A k \in 1..Len(results) : results[k].result.success

\* the tokens are OP_DUP OP_HASH160 <data> OP_EQUALVERIFY OP_CHECKSIG
P2PKHShaped ==
  /\ Len(tokens) = 5
  /\ tokens[1] = "OP_DUP" /\ tokens[2] = "OP_HASH160"
  /\ ~startswith(upper(tokens[3]), "OP_")
  /\ tokens[4] = "OP_EQUALVERIFY" /\ tokens[5] = "OP_CHECKSIG"

\* the tokens are OP_HASH160 <data> OP_EQUAL
P2SHShaped ==
  /\ Len(tokens) = 3
  /\ tokens[1] = "OP_HASH160"
  /\ ~startswith(upper(tokens[2]), "OP_")
  /\ tokens[3] = "OP_EQUAL"

\* the M and N a multisig script states: its first and second-to-last token
DerivedM == parse_small_num(tokens[1])

DerivedN == parse_small_num(FromEnd(tokens, 2))

\* C1: the stack_before of the first step is the preloaded initial stack, and
\* the stack_before of every later step is the stack_after of the step before
\* it, steps that forgiving mode recovered included; the explanation returned
\* carries these steps.
C1_StackContinuity ==
  /\ \A k \in 1..Len(steps) :
       steps[k].stack_before =
         IF k = 1 THEN initial_stack ELSE steps[k - 1].stack_after
  /\ pc = "done" /\ tokens # <<>> => explanation.steps = steps

\* a run of three steps or more from a preloaded stack, in which a step was
\* recovered and changed the stack, and another step followed it
C1_Witness ==
  /\ pc = "done"
  /\ Len(steps) >= 3
  /\ initial_stack # <<>>
  /\ \E k \in 1..(Len(steps) - 1) :
       /\ results[k].recovered
       /\ steps[k].stack_after # steps[k].stack_before
       /\ steps[k + 1].stack_after # steps[k + 1].stack_before

\* C2: a step whose result failed is the last step, whatever the script type:
\* the loop is left, no later token is executed, every step before it
\* succeeded, and the explanation returned has success false and the error of
\* that step.
C2_StopsAtFirstFailure ==
  /\ \A k \in 1..Len(results) :
       ~results[k].result.success =>
         /\ k = Len(results)
         /\ pc # "loop"
         /\ ~success
         /\ error_message = Some(results[k].result.error)
  /\ Len(steps) = Len(results)
  /\ \A k \in 1..Len(steps) : steps[k].opcode = tokens[k] /\ steps[k].step = k - 1
  /\ ~success => results # <<>> /\ ~results[Len(results)].result.success
  /\ pc = "done" /\ tokens # <<>> =>
       /\ explanation.success = success
       /\ explanation.error = error_message
       /\ explanation.steps = steps

\* a run that failed at its second step or later, with tokens left unexecuted
C2_Witness ==
  /\ pc = "done"
  /\ Len(steps) >= 2
  /\ Len(steps) < Len(tokens)
  /\ ~results[Len(results)].result.success
  /\ ~explanation.success

\* C3: an OP_VERIFY step whose stack_before has "0" on top fails and is the
\* last step, the run having success false, forgiving mode or not.
C3_VerifyOfZeroFails ==
  \A k \in 1..Len(steps) :
    /\ upper(steps[k].opcode) = "OP_VERIFY"
    /\ steps[k].stack_before # <<>>
    /\ FromEnd(steps[k].stack_before, 1) = "0"
    => /\ ~results[k].result.success
       /\ k = Len(steps)
       /\ ~success

\* C4: for a malformed script -- empty, blank, or holding a token that fails
\* validation -- explain returns an explanation of type "Error" with success
\* false, no steps and the parse error's text as its error; no token is
\* executed.
C4_MalformedScriptReturnsError ==
  script \in MalformedScripts =>
    /\ pc \in {"call", "done"}
    /\ steps = <<>> /\ results = <<>> /\ stack = <<>> /\ tokens = <<>>
    /\ pc = "done" =>
         /\ explanation.script_type = "Error"
         /\ explanation.success = FALSE
         /\ explanation.steps = <<>>
         /\ explanation.error # None
         /\ explanation.error = Some(parse_script(script).error)
         /\ explanation.error[1] # ""
         /\ Blank(script) => explanation.error[1] = "Empty script provided"

\* explain has returned for a script with a token that fails validation
C4_Witness ==
  /\ pc = "done"
  /\ script = "ab68 a.b OP_DUP"
  /\ explanation.script_type = "Error"
  /\ explanation.error =
       Some("Invalid token: 'a.b' - must be opcode (OP_*) or hex data")

\* C5: a handler of the registry called on a stack shorter than the depth it
\* requires returns success false, an error that is not empty, and the stack it
\* was given.
C5_UnderflowLeavesStack ==
  /\ pc = "handler"
  /\ handler_call.result # None
  /\ handler_call.name \in OPCODE_HANDLERS
  /\ Len(handler_call.stack) < min_depth(handler_call.name)
  => /\ ~handler_call.result[1].success
     /\ handler_call.result[1].error # ""
     /\ handler_call.result[1].stack = handler_call.stack

\* OP_CHECKMULTISIG was called on three items, one short of the four it requires
C5_Witness ==
  /\ pc = "handler"
  /\ handler_call.result # None
  /\ handler_call.name = "OP_CHECKMULTISIG"
  /\ Len(handler_call.stack) = 3
  /\ ~handler_call.result[1].success

\* C6: a script of the five tokens OP_DUP OP_HASH160 <data> OP_EQUALVERIFY
\* OP_CHECKSIG is classified P2PKH and preloaded with <signature> and
\* <public_key>; its five steps succeed and leave exactly the stack
\* ["TRUE (symbolic signature verification)"].
C6_P2PKHRuns ==
  pc \in {"loop", "summary", "done"} /\ P2PKHShaped =>
    /\ script_type = P2PKH
    /\ initial_stack = <<"<signature>", "<public_key>">>
    /\ success /\ AllStepsSucceeded
    /\ Executed =>
         /\ Len(steps) = 5
         /\ stack = <<"TRUE (symbolic signature verification)">>
         /\ steps[5].stack_after = <<"TRUE (symbolic signature verification)">>
    /\ pc = "done" => explanation.success /\ explanation.script_type = P2PKH

\* explain has returned for a P2PKH script whose hash is a placeholder
C6_Witness ==
  /\ pc = "done"
  /\ P2PKHShaped
  /\ tokens[3] = "<pubKeyHash>"
  /\ Len(steps) = 5

\* C7: a script classified Multisig that ends in OP_CHECKMULTISIG and states
\* 0 < M <= N is preloaded with <dummy> and then exactly M signature
\* placeholders <sig1> .. <sigM>: 1 + M items.
C7_MultisigPreload ==
  /\ pc \in {"loop", "summary", "done"}
  /\ script_type = MULTISIG
  /\ Len(tokens) >= 2
  /\ FromEnd(tokens, 1) = "OP_CHECKMULTISIG"
  /\ 0 < DerivedM /\ DerivedM <= DerivedN
  => /\ Len(initial_stack) = 1 + DerivedM
     /\ initial_stack[1] = "<dummy>"
     /\ \A k \in 1..DerivedM : initial_stack[k + 1] = "<sig" \o str(k) \o ">"
     /\ steps # <<>> => steps[1].stack_before = initial_stack

\* explain has returned for a 2-of-3 script
C7_Witness ==
  /\ pc = "done"
  /\ script_type = MULTISIG
  /\ Len(tokens) = 6
  /\ DerivedM = 2 /\ DerivedN = 3
  /\ initial_stack = <<"<dummy>", "<sig1>", "<sig2>">>

\* C8: the script OP_RETURN alone is classified Null Data, with an empty
\* preload; its one step succeeds and leaves the stack empty; parse_script
\* gives exactly one warning, about the missing payload; success is true.
C8_BareOpReturn ==
  pc \in {"loop", "summary", "done"} /\ tokens = <<"OP_RETURN">> =>
    /\ script_type = NULL_DATA
    /\ initial_stack = <<>>
    /\ parse_script(script).warnings =
         <<"Script contains only OP_RETURN with no data payload">>
    /\ parse_warning = "Script contains only OP_RETURN with no data payload"
    /\ success /\ AllStepsSucceeded
    /\ stack = <<>>
    /\ Executed => Len(steps) = 1 /\ steps[1].stack_after = <<>>
    /\ pc = "done" => explanation.success /\ explanation.error = None

\* explain has returned for OP_RETURN written in lower case
C8_Witness ==
  /\ pc = "done"
  /\ script = "op_return"
  /\ tokens = <<"OP_RETURN">>
  /\ Len(steps) = 1

\* C9, as the specification states it: the script OP_DUP alone is classified
\* Unknown and has an empty preload; forgiving recovery injects one
\* placeholder; success is true, with exactly one forgiving warning.
C9_Original ==
  pc = "done" /\ tokens = <<"OP_DUP">> =>
    /\ script_type = UNKNOWN
    /\ initial_stack = <<>>
    /\ results[1].recovered
    /\ explanation.success
    /\ Len(warnings) = 1

\* C9, as the code has it: the script OP_DUP alone is classified Unknown and
\* preloaded with the one placeholder <symbolic_input>, OP_DUP being a
\* stack-consuming opcode; its one step succeeds without recovery and leaves
\* two placeholders; success is true, with no forgiving warning.
C9_BareOpDup ==
  pc \in {"loop", "summary", "done"} /\ tokens = <<"OP_DUP">> =>
    /\ script_type = UNKNOWN
    /\ is_forgiving_mode
    /\ initial_stack = <<"<symbolic_input>">>
    /\ success /\ AllStepsSucceeded
    /\ warnings = <<>>
    /\ Executed =>
         /\ Len(steps) = 1
         /\ ~results[1].recovered
         /\ stack = <<"<symbolic_input>", "<symbolic_input>">>
    /\ pc = "done" => explanation.success

\* explain has returned for OP_DUP alone
C9_Witness ==
  /\ pc = "done"
  /\ tokens = <<"OP_DUP">>
  /\ steps[1].stack_before = <<"<symbolic_input>">>
  /\ explanation.success

\* C10: a script of the three tokens OP_HASH160 <data> OP_EQUAL is classified
\* P2SH and preloaded with <signature> and <redeem_script>; its three steps
\* succeed, and no forgiving warning is given.
C10_P2SHRuns ==
  pc \in {"loop", "summary", "done"} /\ P2SHShaped =>
    /\ script_type = P2SH
    /\ ~is_forgiving_mode
    /\ initial_stack = <<"<signature>", "<redeem_script>">>
    /\ success /\ AllStepsSucceeded
    /\ warnings = <<>>
    /\ \A k \in 1..Len(results) : ~results[k].recovered
    /\ Executed => Len(steps) = 3
    /\ pc = "done" => explanation.success /\ explanation.script_type = P2SH

\* explain has returned for a P2SH script of a 20-byte hash
C10_Witness ==
  /\ pc = "done"
  /\ P2SHShaped
  /\ tokens[2] = Hex40
  /\ Len(steps) = 3

\* the detection rules in their order: whether rule k matches the normalized
\* tokens, the last rule matching everything
rule_matches(k, normalized) ==
  CASE k = 1 -> normalized # <<>> /\ normalized[1] = "OP_RETURN"
    [] k = 2 -> is_p2pkh(normalized)
    [] k = 3 -> is_p2sh(normalized)
    [] k = 4 -> is_p2wpkh(normalized)
    [] k = 5 -> is_p2wsh(normalized)
    [] k = 6 -> is_p2tr(normalized)
    [] k = 7 -> is_p2pk(normalized)
    [] k = 8 -> is_multisig(normalized)
    [] k = 9 -> InList("OP_CHECKMULTISIG", normalized)
    [] k = 10 -> InList("OP_CHECKSIG", normalized)
    [] OTHER -> TRUE

\* the type that rule k gives
rule_type(k) ==
  CASE k = 1 -> NULL_DATA
    [] k = 2 -> P2PKH
    [] k = 3 -> P2SH
    [] k = 4 -> P2WPKH
    [] k = 5 -> P2WSH
    [] k = 6 -> P2TR
    [] k = 7 -> P2PK
    [] k = 8 -> MULTISIG
    [] k = 9 -> MULTISIG
    [] OTHER -> UNKNOWN

\* the first rule, in the order, that matches
first_rule(normalized) ==
  CHOOSE k \in 1..11 :
    /\ rule_matches(k, normalized)
    /\ \A j \in 1..(k - 1) : ~rule_matches(j, normalized)

\* C11: the type detected for a token sequence is the type of the first rule
\* that matches it in the order NullData, P2PKH, P2SH, P2WPKH, P2WSH, P2TR,
\* P2PK, strict Multisig, OP_CHECKMULTISIG anywhere (Multisig), OP_CHECKSIG
\* anywhere (Unknown), otherwise Unknown; a sequence that begins with
\* OP_RETURN is NullData whatever follows; the type is a function of the
\* tokens alone, and it is the type of the explanation returned.
C11_FirstMatchWins ==
  pc \in {"loop", "summary", "done"} /\ tokens # <<>> =>
    /\ script_type = rule_type(first_rule(normalize_tokens(tokens)))
    /\ script_type = detect_script_type(tokens)[1]
    /\ upper(tokens[1]) = "OP_RETURN" => script_type = NULL_DATA
    /\ pc = "done" => explanation.script_type = script_type

\* explain has returned for a script that begins with OP_RETURN and goes on
\* as a 1-of-1 multisig script: an earlier rule won over two later ones
C11_Witness ==
  /\ pc = "done"
  /\ Len(tokens) = 5
  /\ tokens[1] = "OP_RETURN"
  /\ rule_matches(9, normalize_tokens(tokens))
  /\ script_type = NULL_DATA

\* C12: for a script that tokenize_script accepts with tokens T, tokenizing
\* the join of T with single spaces succeeds and gives exactly T.
C12_TokenizeIdempotent ==
  pc = "loop" /\ i = 0 =>
    /\ tokenize_script(script) = [ok |-> TRUE, tokens |-> tokens, error |-> ""]
    /\ tokenize_script(join(" ", tokens)) =
         [ok |-> TRUE, tokens |-> tokens, error |-> ""]

\* explain has tokenized a script that tokenization changed in case and in
\* spacing: the join of its tokens is another text than the script
C12_Witness ==
  /\ pc = "loop" /\ i = 0
  /\ script = "0X0XaB OP_Drop"
  /\ tokens = <<"0x0xab", "OP_DROP">>
  /\ join(" ", tokens) # script

ArithmeticOpcodes ==
  {"OP_ADD", "OP_SUB", "OP_MIN", "OP_MAX", "OP_1ADD", "OP_1SUB", "OP_NEGATE",
   "OP_ABS"}

\* the integer a stack item denotes, for the items that denote one
DenotedInteger ==
  [item \in {"0", "1", "2", "3", "4", "-5", "1_0", "+7", "00", "-0"} |->
     CASE item = "2" -> 2 [] item = "3" -> 3 [] item = "4" -> 4
       [] item = "-5" -> 0 - 5 [] item = "1_0" -> 10 [] item = "+7" -> 7
       [] item = "1" -> 1 [] item \in {"0", "00", "-0"} -> 0]

\* the decimal string of an integer between -20 and 20
Decimal(n) ==
  LET digits == <<"0", "1", "2", "3", "4", "5", "6", "7", "8", "9", "10",
                  "11", "12", "13", "14", "15", "16", "17", "18", "19", "20">>
  IN  IF n < 0 THEN "-" \o digits[1 - n] ELSE digits[n + 1]

\* the exact result of an arithmetic opcode on integers, a being below b
ExactResult(name, a, b) ==
  CASE name = "OP_ADD" -> a + b
    [] name = "OP_SUB" -> a - b
    [] name = "OP_MIN" -> IF a <= b THEN a ELSE b
    [] name = "OP_MAX" -> IF a >= b THEN a ELSE b
    [] name = "OP_1ADD" -> b + 1
    [] name = "OP_1SUB" -> b - 1
    [] name = "OP_NEGATE" -> 0 - b
    [] name = "OP_ABS" -> IF b < 0 THEN 0 - b ELSE b

\* the composite string an arithmetic opcode pushes for operands it cannot read
SymbolicResult(name, a, b) ==
  CASE name = "OP_ADD" -> "ADD(" \o a \o "," \o b \o ")"
    [] name = "OP_SUB" -> "SUB(" \o a \o "," \o b \o ")"
    [] name = "OP_MIN" -> "MIN(" \o a \o "," \o b \o ")"
    [] name = "OP_MAX" -> "MAX(" \o a \o "," \o b \o ")"
    [] name = "OP_1ADD" -> "ADD1(" \o b \o ")"
    [] name = "OP_1SUB" -> "SUB1(" \o b \o ")"
    [] name = "OP_NEGATE" -> "NEGATE(" \o b \o ")"
    [] name = "OP_ABS" -> "ABS(" \o b \o ")"

\* what an arithmetic opcode pushes for the operands a (below) and b (on top);
\* a unary opcode has b alone, a being b
ArithmeticPush(name, a, b) ==
  IF {a, b} \subseteq DOMAIN DenotedInteger
    THEN Decimal(ExactResult(name, DenotedInteger[a], DenotedInteger[b]))
    ELSE SymbolicResult(name, a, b)

KnownTemplates == {P2PKH, P2SH, P2PK, MULTISIG, NULL_DATA, P2WPKH, P2WSH, P2TR}

\* step k recorded what the handler of its token returned on its stack_before,
\* and left the handler's stack
HandlerResultRecorded(k) ==
  /\ results[k].result = execute_token(tokens[k], steps[k].stack_before).result
  /\ steps[k].stack_after = results[k].result.stack
  /\ steps[k].explanation = results[k].result.explanation

\* C14: for a script whose detected type is a known template forgiving mode is
\* off: no step is recovered and no placeholder injected, every step records
\* the result of its handler unmodified, the forgiving warnings stay empty, and
\* the first failed result is the last step, with success false and its error.
C14_NoRecoveryForTemplates ==
  pc \in {"loop", "summary", "done"} /\ script_type \in KnownTemplates =>
    /\ ~is_forgiving_mode
    /\ warnings = <<>>
    /\ \A k \in 1..Len(results) :
         /\ ~results[k].recovered
         /\ HandlerResultRecorded(k)
         /\ ~results[k].result.success =>
              /\ k = Len(results)
              /\ pc # "loop"
              /\ stack = results[k].result.stack
              /\ ~success
              /\ error_message = Some(results[k].result.error)
    /\ pc = "done" =>
         /\ explanation.steps = steps
         /\ explanation.success = success
         /\ explanation.error = error_message

\* explain has returned for a Null Data script whose second token, OP_DUP,
\* underflowed: in an Unknown script the recovery would have injected a
\* placeholder
C14_Witness ==
  /\ pc = "done"
  /\ script_type = NULL_DATA
  /\ Len(tokens) = 3 /\ Len(steps) = 2
  /\ tokens[2] = "OP_DUP"
  /\ steps[2].stack_before = <<>> /\ steps[2].stack_after = <<>>
  /\ ~results[2].result.success
  /\ ~explanation.success

RecoverableOpcodes ==
  {"OP_DUP", "OP_VERIFY", "OP_EQUALVERIFY", "OP_CHECKSIG", "OP_HASH160",
   "OP_EQUAL"}

\* step k met a stack shorter than the handler of its token requires
Underflowed(k) ==
  /\ upper(tokens[k]) \in OPCODE_HANDLERS
  /\ Len(steps[k].stack_before) < min_depth(upper(tokens[k]))

\* the warnings the passes of the loop gave, in order
WarningsGiven ==
  LET given == SelectSeq(results, LAMBDA r : r.warning # None)
  IN  [j \in 1..Len(given) |-> given[j].warning[1]]

\* C15: in a run in forgiving mode, a step whose opcode underflowed and is
\* none of OP_DUP, OP_VERIFY, OP_EQUALVERIFY, OP_CHECKSIG, OP_HASH160, OP_EQUAL
\* is not recovered: it records the failed result of its handler unmodified,
\* its stack_after is its stack_before, it adds no warning, and it is the last
\* step, with success false and its error.
C15_UnderflowOutsideSetHalts ==
  pc \in {"loop", "summary", "done"} /\ is_forgiving_mode =>
    /\ script_type = UNKNOWN
    /\ warnings = WarningsGiven
    /\ \A k \in 1..Len(results) :
         Underflowed(k) /\ upper(tokens[k]) \notin RecoverableOpcodes =>
           /\ HandlerResultRecorded(k)
           /\ ~results[k].result.success
           /\ results[k].result.error # ""
           /\ steps[k].stack_after = steps[k].stack_before
           /\ results[k].warning = None
           /\ k = Len(results)
           /\ pc # "loop"
           /\ stack = steps[k].stack_before
           /\ ~success
           /\ error_message = Some(results[k].result.error)
           /\ pc = "done" =>
                /\ ~explanation.success
                /\ explanation.steps = steps
                /\ explanation.error = error_message

\* explain has returned for an Unknown script whose second token,
\* OP_CHECKSIGVERIFY, underflowed, a token being left unexecuted
C15_Witness ==
  /\ pc = "done"
  /\ is_forgiving_mode
  /\ tokens = <<"OP_DROP", "OP_CHECKSIGVERIFY", "OP_DUP">>
  /\ Len(steps) = 2
  /\ Underflowed(2)
  /\ ~explanation.success

\* C16: whatever calls of explain were made before on the same Explainer --
\* calls that failed, that met a parse error, that gave forgiving warnings --
\* a call of explain returns what explain_script returns for its script on an
\* Explainer of its own; the steps and the warnings it leaves in the fields
\* are those of this call alone.
C16_NoLeakBetweenCalls ==
  /\ pc \in {"loop", "summary", "done"} =>
       /\ Len(steps) = Len(results)
       /\ warnings = WarningsGiven
       /\ errors = <<>>
  /\ pc = "done" => returned = explain_script(script)
  /\ pc = "raised" => explain_script(script) = None

\* the third call on an Explainer has returned with a forgiving warning of
\* its own
C16_Witness ==
  /\ pc = "done"
  /\ calls = 3
  /\ script = "OP_DROP OP_DUP"
  /\ Len(warnings) = 1
  /\ explanation.success

\* C17: two calls of explain on different scripts, made on one Explainer and
\* interleaved, each return what explain_script returns for their script
\* alone; neither sees or changes the stack, steps or warnings of the other.
C17_InterleavedCallsIndependent ==
  parked # None =>
    /\ pc = "done" => returned = explain_script(script)
    /\ parked[1].pc = "done" => parked[1].returned = explain_script(parked[1].script)

\* the steps taken are those of the first tokens, one step for each token, in
\* the order of the tokens; the loop, while it runs, has executed exactly the
\* tokens before position i; left, it has executed every token, or has
\* stopped at the one step that failed
EachTokenOnceInOrder ==
  /\ Len(steps) <= Len(tokens)
  /\ Len(results) = Len(steps)
  /\ \A k \in 1..Len(steps) : steps[k].step = k - 1 /\ steps[k].opcode = tokens[k]
  /\ pc = "loop" => i < Len(tokens) /\ Len(steps) = i /\ AllStepsSucceeded
  /\ pc \in {"summary", "done"} /\ tokens # <<>> =>
       \/ success /\ Len(steps) = Len(tokens) /\ AllStepsSucceeded
       \/ /\ ~success
          /\ steps # <<>>
          /\ ~results[Len(results)].result.success
          /\ \A k \in 1..(Len(results) - 1) : results[k].result.success

\* C18: every call of explain ends; each token is executed at most once, in
\* order, so that there are never more steps than tokens, and the run ends
\* at the first failure that is not recovered or after the last token.
C18_Terminates ==
  /\ []EachTokenOnceInOrder
  /\ <>(pc \in {"done", "raised"})

\* explain has returned having executed each of seven tokens once
C18_Witness ==
  /\ pc = "done"
  /\ Len(tokens) = 7
  /\ Len(steps) = 7
  /\ \A k \in 1..7 : steps[k].opcode = tokens[k]
  /\ explanation.success

\* one warning for each opcode token that has no handler in the registry
RECURSIVE UnregisteredOpcodeWarnings(_)
UnregisteredOpcodeWarnings(toks) ==
  IF toks = <<>> THEN <<>>
  ELSE (IF startswith(upper(toks[1]), "OP_") /\ upper(toks[1]) \notin OPCODE_HANDLERS
          THEN <<"Unknown opcode '" \o toks[1] \o "' - will be processed as no-op">>
          ELSE <<>>)
       \o UnregisteredOpcodeWarnings(Tail(toks))

\* C19: the warnings of parse_script are one warning when the script is
\* OP_RETURN alone, and one warning for each opcode token that is not in the
\* registry OPCODE_HANDLERS; an opcode that has a handler there, such as
\* OP_ADD, OP_SWAP or OP_1, gives none; the script parses all the same.
C19_ParseWarnings ==
  pc = "loop" /\ i = 0 =>
    /\ parse_script(script).ok
    /\ parse_script(script).warnings =
         (IF tokens = <<"OP_RETURN">>
            THEN <<"Script contains only OP_RETURN with no data payload">>
            ELSE <<>>)
         \o UnregisteredOpcodeWarnings(tokens)
    /\ parse_warning = join("; ", parse_script(script).warnings)

\* C20: for every script that tokenizes, explain returns an Explanation and
\* no exception leaves the call: the call never ends by raising, and when it
\* has ended it has returned the Explanation of its script.  (No handler of
\* the registry raises, so the except branch of lines 109-121, which would
\* record a fault as a last failed step, is never entered.)
C20_NoExceptionPropagates ==
  tokenize_script(script).ok =>
    /\ pc # "raised"
    /\ pc = "done" => returned # None /\ returned = explain_script(script)

\* C21: the lookup and the listing agree: get_opcode_info reports known
\* exactly for the names (read without regard to case) that list_opcodes
\* returns, with the description the listing gives, and for every other name
\* it reports not known and the description "Unknown opcode".
C21_LookupAgreesWithListing ==
  pc = "lookup" /\ lookup.info # None =>
    /\ lookup.info[1].opcode = upper(lookup.opcode)
    /\ lookup.info[1].known <=> lookup.info[1].opcode \in DOMAIN list_opcodes
    /\ lookup.info[1].known =>
         lookup.info[1].description = list_opcodes[lookup.info[1].opcode]
    /\ ~lookup.info[1].known => lookup.info[1].description = "Unknown opcode"

ComparisonOpcodes ==
  {"OP_EQUAL", "OP_NUMEQUAL", "OP_LESSTHAN", "OP_GREATERTHAN",
   "OP_LESSTHANOREQUAL", "OP_GREATERTHANOREQUAL"}

\* the exact result of a comparison opcode on integers, a being below b
ExactComparison(name, a, b) ==
  CASE name \in {"OP_EQUAL", "OP_NUMEQUAL"} -> a = b
    [] name = "OP_LESSTHAN" -> a < b
    [] name = "OP_GREATERTHAN" -> a > b
    [] name = "OP_LESSTHANOREQUAL" -> a <= b
    [] name = "OP_GREATERTHANOREQUAL" -> a >= b

\* C22: OP_EQUAL, OP_NUMEQUAL, OP_LESSTHAN, OP_GREATERTHAN, OP_LESSTHANOREQUAL
\* and OP_GREATERTHANOREQUAL called on two operands that both read as
\* integers succeed, pop both and push the exact boolean result of the
\* comparison as its decimal string, "1" or "0"; what they push for such
\* operands is never a symbolic composite.
C22_Comparison ==
  /\ pc = "handler"
  /\ handler_call.result # None
  /\ handler_call.name \in ComparisonOpcodes
  /\ Len(handler_call.stack) >= 2
  /\ {FromEnd(handler_call.stack, 2), FromEnd(handler_call.stack, 1)}
       \subseteq DOMAIN DenotedInteger
  => /\ handler_call.result[1].success
     /\ ButLast(handler_call.result[1].stack, 1) = ButLast(handler_call.stack, 2)
     /\ FromEnd(handler_call.result[1].stack, 1) =
          IF ExactComparison(handler_call.name,
                             DenotedInteger[FromEnd(handler_call.stack, 2)],
                             DenotedInteger[FromEnd(handler_call.stack, 1)])
            THEN "1" ELSE "0"

BooleanOpcodes == {"OP_NOT", "OP_0NOTEQUAL", "OP_BOOLAND", "OP_BOOLOR"}

\* C23: OP_VERIFY and the boolean handlers use one notion of false: OP_VERIFY
\* fails on a top item exactly when OP_NOT maps that item to "1" and
\* OP_0NOTEQUAL maps it to "0"; and OP_NOT, OP_0NOTEQUAL, OP_BOOLAND and
\* OP_BOOLOR, given the depth they require, succeed and push "0" or "1".
C23_OneNotionOfFalse ==
  pc = "handler" /\ handler_call.result # None =>
    /\ handler_call.name = "OP_VERIFY" /\ Len(handler_call.stack) >= 1 =>
         (~handler_call.result[1].success
            <=> /\ execute_op_not(<<FromEnd(handler_call.stack, 1)>>).stack = <<"1">>
                /\ execute_op_0notequal(<<FromEnd(handler_call.stack, 1)>>).stack
                     = <<"0">>)
    /\ /\ handler_call.name \in BooleanOpcodes
       /\ Len(handler_call.stack) >= min_depth(handler_call.name)
       => /\ handler_call.result[1].success
          /\ FromEnd(handler_call.result[1].stack, 1) \in {"0", "1"}

\* C24: OP_VERIFY on a stack that is not empty returns the stack without its
\* top item, whether it fails or passes, and fails exactly when the top item,
\* read without regard to case, is "false", "0" or the empty string; any
\* other top item, a symbolic composite among them, passes.
C24_VerifyPopsAndTests ==
  /\ pc = "handler"
  /\ handler_call.result # None
  /\ handler_call.name = "OP_VERIFY"
  /\ Len(handler_call.stack) >= 1
  => /\ handler_call.result[1].stack = ButLast(handler_call.stack, 1)
     /\ ~handler_call.result[1].success
          <=> lower(FromEnd(handler_call.stack, 1)) \in {"false", "0", ""}
     /\ handler_call.result[1].success <=> handler_call.result[1].error = ""

\* OP_VERIFY passed on a symbolic composite and popped it, and there is a
\* stack on which it fails on the spelling "False"
C24_Witness ==
  /\ pc = "handler"
  /\ handler_call.result # None
  /\ handler_call.name = "OP_VERIFY"
  /\ handler_call.stack = <<"ab", "EQUAL(ab,2)">>
  /\ handler_call.result[1].success
  /\ handler_call.result[1].stack = <<"ab">>
  /\ ~execute_op_verify(<<"ab", "False">>).success

\* the step of token k has been taken and has succeeded, and a token follows
FollowedStep(k) ==
  /\ k <= Len(steps)
  /\ results[k].result.success
  /\ k < Len(tokens)

\* C25: flow control is linear.  OP_IF and OP_NOTIF pop their condition and
\* nothing more, whatever its value; OP_ELSE, OP_ENDIF, OP_NOP and OP_RETURN
\* succeed and leave the stack as it was; the steps are those of the tokens in
\* their order, none left out, and after a step of OP_IF, OP_NOTIF or
\* OP_RETURN the token that follows is executed.
C25_LinearFlow ==
  pc \in {"loop", "summary", "done"} =>
    /\ \A k \in 1..Len(steps) :
         /\ steps[k].step = k - 1
         /\ steps[k].opcode = tokens[k]
         /\ steps[k].opcode \in {"OP_ELSE", "OP_ENDIF", "OP_NOP", "OP_RETURN"} =>
              /\ results[k].result.success
              /\ ~results[k].recovered
              /\ steps[k].stack_after = steps[k].stack_before
         /\ steps[k].opcode \in {"OP_IF", "OP_NOTIF"} /\ steps[k].stack_before # <<>> =>
              /\ results[k].result.success
              /\ ~results[k].recovered
              /\ steps[k].stack_after = ButLast(steps[k].stack_before, 1)
    /\ \A k \in 1..Len(tokens) :
         /\ tokens[k] \in {"OP_IF", "OP_NOTIF", "OP_RETURN"}
         /\ FollowedStep(k)
         => IF pc = "loop" THEN i >= k ELSE Len(steps) >= k + 1

\* OP_IF popped a false condition, and both branches were executed after it
C25_Witness ==
  /\ pc = "done"
  /\ tokens = <<"0", "OP_IF", "2", "OP_ELSE", "3", "OP_ENDIF">>
  /\ Len(steps) = 6
  /\ steps[2].stack_before = <<"0">> /\ steps[2].stack_after = <<>>
  /\ stack = <<"2", "3">>
  /\ explanation.success

\* C26: a token with the prefix OP_ that has no handler in the registry is a
\* step that succeeds and leaves the stack as it was, and the token after it
\* is executed; a token without the prefix OP_ is a data push: its step
\* succeeds and its stack_after is its stack_before with the token on top.
C26_UnknownOpcodeAndDataPush ==
  pc \in {"loop", "summary", "done"} =>
    \A k \in 1..Len(steps) :
      /\ /\ startswith(steps[k].opcode, "OP_")
         /\ steps[k].opcode \notin OPCODE_HANDLERS
         => /\ results[k].result.success
            /\ ~results[k].recovered
            /\ steps[k].stack_after = steps[k].stack_before
            /\ k < Len(tokens) =>
                 IF pc = "loop" THEN i >= k ELSE Len(steps) >= k + 1
      /\ ~startswith(steps[k].opcode, "OP_")
         => /\ results[k].result.success
            /\ ~results[k].recovered
            /\ steps[k].stack_after = steps[k].stack_before \o <<tokens[k]>>

\* three opcodes without a handler were passed over between two data pushes
C26_Witness ==
  /\ pc = "done"
  /\ tokens = <<"2", "OP_PICK", "OP_ROLL", "OP_CHECKLOCKTIMEVERIFY", "3">>
  /\ Len(steps) = 5
  /\ \A k \in 2..4 : steps[k].stack_after = <<"2">>
  /\ stack = <<"2", "3">>
  /\ explanation.success

\* the depth below which a handler of the signature family fails
SignatureDepth ==
  [name \in {"OP_CHECKSIG", "OP_CHECKSIGVERIFY", "OP_CHECKMULTISIG",
             "OP_CHECKMULTISIGVERIFY"} |->
     IF name \in {"OP_CHECKSIG", "OP_CHECKSIGVERIFY"} THEN 2 ELSE 4]

\* a handler of the signature family has been called
SignatureCalled ==
  /\ pc = "handler"
  /\ handler_call.result # None
  /\ handler_call.name \in DOMAIN SignatureDepth

\* a handler of the signature family fails exactly below its depth, with an
\* underflow that leaves the stack
FailsOnlyBelowDepth ==
  /\ ~handler_call.result[1].success
       <=> Len(handler_call.stack) < SignatureDepth[handler_call.name]
  /\ ~handler_call.result[1].success =>
       /\ handler_call.result[1].stack = handler_call.stack
       /\ startswith(handler_call.result[1].error, "Stack underflow")

\* C27 as stated: the handlers of the signature family fail exactly below
\* their depth (2 for OP_CHECKSIG and OP_CHECKSIGVERIFY, 4 for OP_CHECKMULTISIG
\* and OP_CHECKMULTISIGVERIFY); on success OP_CHECKSIG and OP_CHECKMULTISIG
\* leave a marker "TRUE (symbolic ...)" on top, and OP_CHECKSIGVERIFY and
\* OP_CHECKMULTISIGVERIFY leave the stack empty.
C27_Original ==
  SignatureCalled =>
    /\ FailsOnlyBelowDepth
    /\ handler_call.result[1].success =>
         IF handler_call.name \in {"OP_CHECKSIG", "OP_CHECKMULTISIG"}
           THEN startswith(FromEnd(handler_call.result[1].stack, 1), "TRUE (symbolic ")
           ELSE handler_call.result[1].stack = <<>>

\* C27: the handlers of the signature family fail exactly below their depth;
\* on success OP_CHECKSIG replaces the top two items by the marker
\* "TRUE (symbolic signature verification)", OP_CHECKSIGVERIFY removes the top
\* two items and leaves the items below them, OP_CHECKMULTISIG leaves the marker
\* "TRUE (symbolic multisig verification)" alone on the stack, and
\* OP_CHECKMULTISIGVERIFY leaves the stack empty.
C27_SignatureFamily ==
  SignatureCalled =>
    /\ FailsOnlyBelowDepth
    /\ handler_call.result[1].success =>
         handler_call.result[1].stack =
           CASE handler_call.name = "OP_CHECKSIG" ->
                  ButLast(handler_call.stack, 2)
                  \o <<"TRUE (symbolic signature verification)">>
             [] handler_call.name = "OP_CHECKSIGVERIFY" ->
                  ButLast(handler_call.stack, 2)
             [] handler_call.name = "OP_CHECKMULTISIG" ->
                  <<"TRUE (symbolic multisig verification)">>
             [] handler_call.name = "OP_CHECKMULTISIGVERIFY" -> <<>>

\* OP_CHECKSIGVERIFY was called on three items and left the lowest
C27_Witness ==
  /\ SignatureCalled
  /\ handler_call.name = "OP_CHECKSIGVERIFY"
  /\ handler_call.stack = <<"ab", "2", "ab">>
  /\ handler_call.result[1].success
  /\ handler_call.result[1].stack = <<"ab">>

\* the shapes near a template that _detect_structural_stack tests before its
\* fallback: P2PKH-like, P2SH-like, multisig-like, P2PK-like
NearTemplate(toks) ==
  \/ /\ Len(toks) >= 5
     /\ toks[1] = "OP_DUP" /\ toks[2] = "OP_HASH160"
     /\ FromEnd(toks, 2) = "OP_EQUALVERIFY" /\ FromEnd(toks, 1) = "OP_CHECKSIG"
  \/ Len(toks) >= 3 /\ toks[1] = "OP_HASH160" /\ FromEnd(toks, 1) = "OP_EQUAL"
  \/ InList("OP_CHECKMULTISIG", toks)
  \/ FromEnd(toks, 1) = "OP_CHECKSIG" /\ ~InList("OP_DUP", toks)

\* the script has an opcode whose handler requires a depth of 1 or more
ConsumesStack(toks) == \E k \in 1..Len(toks) : min_depth(toks[k]) >= 1

\* C28: for a script of type Unknown that has none of the shapes near a
\* template, the preload is the one placeholder <symbolic_input> when the
\* script has an opcode whose handler requires a depth of 1 or more, and is
\* empty when it has none.
C28_GenericPreload ==
  /\ pc \in {"loop", "summary", "done"}
  /\ tokens # <<>>
  /\ script_type = UNKNOWN
  /\ ~NearTemplate(tokens)
  => initial_stack =
       IF ConsumesStack(tokens) THEN <<"<symbolic_input>">> ELSE <<>>

\* the handler of step k failed and the recovery of forgiving mode made the
\* step a success
RecoveredStep(k) == results[k].recovered /\ results[k].result.success

\* C29: in a run of type Unknown, each step whose handler failed and that the
\* recovery turned into a success adds one warning, and no other step adds
\* one: the forgiving warnings are as many as the recovered steps.
C29_OneWarningPerRecoveredStep ==
  pc \in {"loop", "summary", "done"} /\ script_type = UNKNOWN =>
    /\ \A k \in 1..Len(results) : RecoveredStep(k) <=> results[k].warning # None
    /\ Len(warnings) = Cardinality({k \in 1..Len(results) : RecoveredStep(k)})

\* every step of the list before is in the list after, at its place and as it
\* was; the list after has at most one step more, that of the token at hand
StepsExtended ==
  /\ Len(steps') \in {Len(steps), Len(steps) + 1}
  /\ SubSeq(steps', 1, Len(steps)) = steps
  /\ Len(steps') = Len(steps) + 1 =>
       /\ steps'[Len(steps')].step = Len(steps)
       /\ steps'[Len(steps')].step = i
       /\ steps'[Len(steps')].opcode = tokens[i + 1]
       /\ steps'[Len(steps')].stack_before = stack
       /\ steps'[Len(steps')].stack_after = stack'

\* C30: the trace is append-only during a run: from the entry of the loop to
\* the return, every step of the run leaves the steps recorded so far as they
\* were and in their order, and adds at most one step, at the end, with the
\* index and the token of the pass.
C30_AppendOnly == [][pc # "call" => StepsExtended]_vars

\* five steps were appended one after the other, and the explanation returned
\* has them in the order of their indices
C30_Witness ==
  /\ pc = "done"
  /\ Len(steps) = 5
  /\ explanation.steps = steps
  /\ \A k \in 1..5 : steps[k].step = k - 1
  /\ \A k \in 2..5 : steps[k].stack_before = steps[k - 1].stack_after
  /\ script_type = P2PKH

\* the token is one of the numerals 0 .. 16 or one of the opcodes OP_0 .. OP_16
IsSmallNumber(token) == \E n \in 0..16 : token \in {str(n), "OP_" \o str(n)}

\* the number it states
SmallNumberOf(token) == CHOOSE n \in 0..16 : token \in {str(n), "OP_" \o str(n)}

\* the script has 4 tokens or more, ends in OP_CHECKMULTISIG, and its first
\* and its second-to-last token are small numbers
MultisigShaped ==
  /\ Len(tokens) >= 4
  /\ FromEnd(tokens, 1) = "OP_CHECKMULTISIG"
  /\ IsSmallNumber(tokens[1])
  /\ IsSmallNumber(FromEnd(tokens, 2))

\* the description that names M and N
MOfNDescription(m, n) ==
  "This is a " \o str(m) \o "-of-" \o str(n)
  \o " multi-signature script. It requires " \o str(m)
  \o " valid signatures from " \o str(n) \o " possible public keys to spend."

\* C31: a script of 4 tokens or more that ends in OP_CHECKMULTISIG and has a
\* small number (0 .. 16, as a numeral or as OP_0 .. OP_16) as its first and
\* as its second-to-last token is classified Multisig, whatever the tokens
\* between the two and however many; the description names M and N exactly
\* when 0 < M <= N, and is the generic Multisig description otherwise.
C31_MultisigDetection ==
  pc \in {"loop", "summary", "done"} /\ MultisigShaped =>
    /\ script_type = MULTISIG
    /\ type_description =
         IF 0 < SmallNumberOf(tokens[1])
            /\ SmallNumberOf(tokens[1]) <= SmallNumberOf(FromEnd(tokens, 2))
           THEN MOfNDescription(SmallNumberOf(tokens[1]),
                                SmallNumberOf(FromEnd(tokens, 2)))
           ELSE "This is a multi-signature script requiring M-of-N signatures to spend."
    /\ pc = "done" => /\ explanation.script_type = MULTISIG
                      /\ contains(explanation.summary, type_description)

\* explain has returned for a 1-of-3 script with opcodes and a further
\* OP_CHECKMULTISIG, and no public key, between the two numbers
C31_Witness ==
  /\ pc = "done"
  /\ tokens = <<"1", "OP_RETURN", "OP_CHECKMULTISIG", "OP_VERIFY", "OP_3", "OP_CHECKMULTISIG">>
  /\ script_type = MULTISIG
  /\ type_description = MOfNDescription(1, 3)

\* step k ran OP_CHECKMULTISIG on fewer than the 4 items its handler requires
MultisigUnderflowed(k) ==
  /\ tokens[k] = "OP_CHECKMULTISIG"
  /\ Len(steps[k].stack_before) < 4

\* C32: an underflow of OP_CHECKMULTISIG is never recovered.  No script that
\* holds the token OP_CHECKMULTISIG is classified Unknown, so forgiving mode
\* is off in its run; a step that runs OP_CHECKMULTISIG on fewer than 4 items
\* fails with the handler's result and its stack unchanged, no placeholder is
\* injected and no warning given, and it is the last step, with success false
\* and its error.
C32_MultisigUnderflowHalts ==
  pc \in {"loop", "summary", "done"} /\ InList("OP_CHECKMULTISIG", tokens) =>
    /\ script_type # UNKNOWN
    /\ ~is_forgiving_mode
    /\ warnings = <<>>
    /\ \A k \in 1..Len(results) :
         MultisigUnderflowed(k) =>
           /\ ~results[k].recovered
           /\ results[k].result = execute_op_checkmultisig(steps[k].stack_before)
           /\ ~results[k].result.success
           /\ results[k].result.error = "Stack underflow: OP_CHECKMULTISIG requires more items"
           /\ steps[k].stack_after = steps[k].stack_before
           /\ results[k].warning = None
           /\ k = Len(results)
           /\ pc # "loop"
           /\ stack = steps[k].stack_before
           /\ ~success
           /\ error_message = Some(results[k].result.error)
           /\ pc = "done" =>
                /\ ~explanation.success
                /\ explanation.steps = steps
                /\ explanation.error = error_message

\* explain has returned for OP_CHECKMULTISIG followed by a further token: the
\* opcode met the three items of the default preload and failed, and the
\* token after it was not executed
C32_Witness ==
  /\ pc = "done"
  /\ tokens = <<"OP_CHECKMULTISIG", "OP_DUP">>
  /\ script_type = MULTISIG
  /\ Len(steps) = 1
  /\ steps[1].stack_before = <<"<dummy>", "<sig1>", "<sig2>">>
  /\ MultisigUnderflowed(1)
  /\ ~explanation.success

\* the opcode each -VERIFY opcode is described as running before OP_VERIFY
BaseOpcode ==
  [OP_EQUALVERIFY |-> "OP_EQUAL", OP_NUMEQUALVERIFY |-> "OP_NUMEQUAL",
   OP_CHECKSIGVERIFY |-> "OP_CHECKSIG",
   OP_CHECKMULTISIGVERIFY |-> "OP_CHECKMULTISIG"]

\* the base opcode and, when it succeeded, OP_VERIFY on the stack it left
BaseThenVerify(name, items) ==
  IF call_handler(BaseOpcode[name], items).success
    THEN call_handler("OP_VERIFY", call_handler(BaseOpcode[name], items).stack)
    ELSE call_handler(BaseOpcode[name], items)

\* C33: each -VERIFY opcode is its base opcode followed by OP_VERIFY: on every
\* stack OP_EQUALVERIFY, OP_NUMEQUALVERIFY, OP_CHECKSIGVERIFY and
\* OP_CHECKMULTISIGVERIFY give the success flag and the stack that OP_EQUAL,
\* OP_NUMEQUAL, OP_CHECKSIG and OP_CHECKMULTISIG followed by OP_VERIFY give;
\* OP_NUMEQUALVERIFY fails when its two operands are different numbers.
C33_VerifyFormsCompose ==
  /\ pc = "handler"
  /\ handler_call.result # None
  /\ handler_call.name \in DOMAIN BaseOpcode
  => /\ handler_call.result[1].success
          = BaseThenVerify(handler_call.name, handler_call.stack).success
     /\ handler_call.result[1].stack
          = BaseThenVerify(handler_call.name, handler_call.stack).stack

\* for each stack-shuffle opcode: the size of the window it works on, and
\* where in the window each item it leaves comes from (1 is the deepest)
ShuffleWindow ==
  [OP_DUP |-> 1, OP_DROP |-> 1, OP_SWAP |-> 2, OP_ROT |-> 3, OP_OVER |-> 2,
   OP_NIP |-> 2, OP_TUCK |-> 2, OP_2DUP |-> 2, OP_3DUP |-> 3, OP_2DROP |-> 2]

ShuffleOrder ==
  [OP_DUP |-> <<1, 1>>, OP_DROP |-> <<>>, OP_SWAP |-> <<2, 1>>,
   OP_ROT |-> <<2, 3, 1>>, OP_OVER |-> <<1, 2, 1>>, OP_NIP |-> <<2>>,
   OP_TUCK |-> <<2, 1, 2>>, OP_2DUP |-> <<1, 2, 1, 2>>,
   OP_3DUP |-> <<1, 2, 3, 1, 2, 3>>, OP_2DROP |-> <<>>]

\* the stack after the rearrangement: the items below the window as they
\* were, then the items of the window in the order of the opcode
Shuffled(name, items) ==
  LET below == SubSeq(items, 1, Len(items) - ShuffleWindow[name])
      window == SubSeq(items, Len(items) - ShuffleWindow[name] + 1, Len(items))
  IN  below \o [j \in 1..Len(ShuffleOrder[name]) |-> window[ShuffleOrder[name][j]]]

\* C34: on a stack of the depth it requires each stack-shuffle handler
\* succeeds, performs exactly its rearrangement on the top window and leaves
\* every item below the window as it was: OP_DUP (x -> x x), OP_DROP (x -> ),
\* OP_SWAP (x y -> y x), OP_ROT (x y z -> y z x), OP_OVER (x y -> x y x),
\* OP_NIP (x y -> y), OP_TUCK (x y -> y x y), OP_2DUP (x y -> x y x y),
\* OP_3DUP (x y z -> x y z x y z), OP_2DROP (x y -> ); OP_DEPTH succeeds on
\* every stack and pushes the decimal count of the items that were on it.
C34_StackShuffles ==
  pc = "handler" /\ handler_call.result # None =>
    /\ handler_call.name \in DOMAIN ShuffleWindow
       /\ Len(handler_call.stack) >= ShuffleWindow[handler_call.name]
       => /\ handler_call.result[1].success
          /\ handler_call.result[1].error = ""
          /\ handler_call.result[1].stack
               = Shuffled(handler_call.name, handler_call.stack)
    /\ handler_call.name = "OP_DEPTH"
       => /\ handler_call.result[1].success
          /\ handler_call.result[1].stack
               = handler_call.stack \o <<Decimal(Len(handler_call.stack))>>

\* OP_ROT has rotated the top three of four items, the item below them
\* staying in place, and there is a stack of four that OP_DEPTH counts
C34_Witness ==
  /\ pc = "handler"
  /\ handler_call.result # None
  /\ handler_call.name = "OP_ROT"
  /\ handler_call.stack = <<"2", "2", "ab", "ab">>
  /\ handler_call.result[1].stack = <<"2", "ab", "ab", "2">>
  /\ execute_op_depth(<<"ab", "2", "2", "ab">>).stack = <<"ab", "2", "2", "ab", "4">>

\* C35: in every explanation returned for a script that parses, success is
\* true exactly when error is None; when success is true the trace has one
\* step per token, in the order of the tokens, the step of token i having the
\* index i and the token as its opcode; when success is false error is a
\* message that is not empty, and the last step recorded is the one that
\* failed, every step before it having succeeded.
C35_SuccessErrorAndTrace ==
  pc = "done" /\ parse_script(script).ok =>
    /\ explanation.steps = steps
    /\ explanation.success <=> explanation.error = None
    /\ explanation.success =>
         /\ Len(explanation.steps) = Len(tokens)
         /\ tokens = parse_script(script).tokens
         /\ \A k \in 1..Len(tokens) :
              /\ explanation.steps[k].step = k - 1
              /\ explanation.steps[k].opcode = tokens[k]
              /\ results[k].result.success
    /\ ~explanation.success =>
         /\ explanation.error # None
         /\ explanation.error[1] # ""
         /\ explanation.steps # <<>>
         /\ Len(explanation.steps) <= Len(tokens)
         /\ \A k \in 1..Len(steps) :
              /\ explanation.steps[k].step = k - 1
              /\ explanation.steps[k].opcode = tokens[k]
              /\ results[k].result.success <=> k < Len(steps)
         /\ explanation.error = Some(results[Len(steps)].result.error)

\* explain has returned a failure whose last step, the second of three
\* tokens, is the one that failed
C35_Witness ==
  /\ pc = "done"
  /\ tokens = <<"OP_DROP", "OP_CHECKSIGVERIFY", "OP_DUP">>
  /\ ~explanation.success
  /\ Len(explanation.steps) = 2
  /\ explanation.error = Some("Stack underflow: OP_CHECKSIGVERIFY requires at least 2 items")
  /\ explain_script("OP_DUP OP_DROP")[1].success
  /\ explain_script("OP_DUP OP_DROP")[1].error = None

\* the templates matched by a fixed pattern
StrictTemplates == {P2PKH, P2SH, P2PK, P2WPKH, P2WSH, P2TR}

\* C36: every script classified P2PKH, P2SH, P2PK, P2WPKH, P2WSH or P2TR runs
\* to its end on the preload of its type: no step meets a stack shorter than
\* its handler requires, every step succeeds, there is one step per token,
\* and success is true with no error.
C36_StrictTemplatesRun ==
  pc \in {"loop", "summary", "done"} /\ script_type \in StrictTemplates =>
    /\ initial_stack = get_symbolic_initial_stack(script_type, tokens)
    /\ Len(steps) = i
    /\ \A k \in 1..Len(steps) :
         /\ ~Underflowed(k)
         /\ results[k].result.success
         /\ ~results[k].recovered
    /\ success /\ error_message = None
    /\ pc # "loop" => Len(steps) = Len(tokens)
    /\ pc = "done" => /\ explanation.success
                      /\ explanation.error = None
                      /\ explanation.steps = steps

\* explain has returned for a P2PK script whose OP_CHECKSIG found the
\* preloaded signature below the public key, and a Taproot script runs on an
\* empty preload
C36_Witness ==
  /\ pc = "done"
  /\ script_type = P2PK
  /\ initial_stack = <<"<signature>">>
  /\ tokens = <<Hex66, "OP_CHECKSIG">>
  /\ stack = <<"TRUE (symbolic signature verification)">>
  /\ explanation.success
  /\ explain_script("OP_TRUE " \o Hex64)[1].script_type = P2TR
  /\ explain_script("OP_TRUE " \o Hex64)[1].success

\* C37: the preload of every script has at most 17 items.  The preload of a
\* Multisig script is <dummy> followed by M signature placeholders when its
\* first token is a small number M between 1 and 16, and <dummy> followed by
\* the default of two placeholders otherwise; the preload of a script of any
\* other type has at most 2 items.
C37_PreloadBound ==
  pc \in {"loop", "summary", "done"} /\ tokens # <<>> =>
    /\ Len(initial_stack) <= 17
    /\ script_type = MULTISIG =>
         initial_stack =
           IF is_small_num(tokens[1]) /\ parse_small_num(tokens[1]) >= 1
             THEN <<"<dummy>">> \o
                  [k \in 1..parse_small_num(tokens[1]) |-> "<sig" \o str(k) \o ">"]
             ELSE <<"<dummy>", "<sig1>", "<sig2>">>
    /\ script_type # MULTISIG => Len(initial_stack) <= 2

\* C38: every successful step of OP_VERIFY removes exactly one item: its
\* stack_after is its stack_before without the top item, or both are empty
\* when the recovery supplied the item that was missing; this holds in
\* forgiving mode as for the known templates.
C38_VerifyRemovesOneItem ==
  pc \in {"loop", "summary", "done"} =>
    \A k \in 1..Len(steps) :
      upper(steps[k].opcode) = "OP_VERIFY" /\ results[k].result.success =>
        steps[k].stack_after =
          IF steps[k].stack_before = <<>> THEN <<>>
          ELSE ButLast(steps[k].stack_before, 1)

\* the placeholders the recovery of forgiving mode injects
Placeholders ==
  {"<symbolic_input>", "TRUE", "<symbolic_a>", "<symbolic_b>",
   "<assumed_signature>", "<assumed_public_key>", "<symbolic_value>"}

\* the stacks obtained from items by putting below it just as many
\* placeholders as it lacks to the minimum depth of the opcode
PaddedToMinimum(name, items) ==
  {padding \o items : padding \in [1..(min_depth(name) - Len(items)) -> Placeholders]}

\* C39: the recovery of forgiving mode injects only as many placeholders as
\* the opcode lacks, and the opcode consumes them: after the recovery of an
\* underflow, stack_after is what the handler of the opcode returns on the
\* stack padded to exactly its minimum depth; a recovered OP_EQUALVERIFY
\* leaves an empty stack, and a recovered OP_CHECKSIG leaves only the
\* signature marker of its handler.
C39_RecoveryPadsToMinimum ==
  pc \in {"loop", "summary", "done"} =>
    \A k \in 1..Len(steps) :
      Underflowed(k) /\ RecoveredStep(k) =>
        /\ \E padded \in PaddedToMinimum(steps[k].opcode, steps[k].stack_before) :
             /\ call_handler(steps[k].opcode, padded).success
             /\ steps[k].stack_after = call_handler(steps[k].opcode, padded).stack
        /\ steps[k].opcode = "OP_EQUALVERIFY" => steps[k].stack_after = <<>>
        /\ steps[k].opcode = "OP_CHECKSIG" =>
             steps[k].stack_after = <<"TRUE (symbolic signature verification)">>

\* call c of add_event returned True
Accepted(c) == tracker.calls[c].returned = Some(TRUE)

\* the events of the type among those the file held at the start, and the
\* calls that were accepted with the type
EventsAtStart(type) ==
  Cardinality({k \in 1..Len(load_events(tracker.initial)) :
                 load_events(tracker.initial)[k].event_type = type})

AcceptedCalls(type) ==
  Cardinality({c \in Callers : Accepted(c) /\ tracker.calls[c].event_type = type})

\* C40: no accepted usage event is lost.  A call of add_event returns False
\* exactly when its event type is none of EventType or its session id is
\* blank, and such calls leave the log as it was; once the calls that ran
\* at the same time have all returned, the event of every call that returned
\* True is in the stored log, and the lifetime_views and the
\* total_scripts_explained of get_stats are the numbers of page_visit and of
\* script_explained events accepted.
C40_NoAcceptedEventLost ==
  pc = "tracker" =>
    /\ \A c \in Callers :
         tracker.calls[c].pc = "done" =>
           (Accepted(c) <=> valid_arguments(tracker.calls[c].session_id,
                                            tracker.calls[c].event_type))
    /\ (\A c \in Callers : tracker.calls[c].pc = "done") =>
         /\ \A c \in Callers :
              Accepted(c) =>
                InList(tracker.calls[c].event[1], load_events(tracker.visits_file))
         /\ (\A c \in Callers : ~Accepted(c)) => tracker.visits_file = tracker.initial
         /\ tracker.stats # None =>
              /\ tracker.stats[1].lifetime_views
                   = EventsAtStart("page_visit") + AcceptedCalls("page_visit")
              /\ tracker.stats[1].total_scripts_explained
                   = EventsAtStart("script_explained")
                     + AcceptedCalls("script_explained")

=============================================================================
